---- MODULE Spec2Model ----
(***************************************************************************)
(* Model of the wphunter configuration resolution engine                   *)
(* (internal/config) and of the command-line layer that feeds it           *)
(* (internal/cli/runtime_flags.go).                                        *)
(*                                                                         *)
(* Go strings are modelled as sequences of one-character strings, so that  *)
(* trimming, splitting, prefix tests and integer parsing are computed the  *)
(* way the code computes them.  The character "NUL" stands for the byte    *)
(* \x00.  A nil slice and an empty slice are both the empty sequence, as   *)
(* the code only ever looks at len().  A nil error is the empty string.    *)
(***************************************************************************)
EXTENDS Integers, Sequences, FiniteSets, TLC

VARIABLES
    cwd,        \* working directory of the process (<<>>: os.Getwd fails)
    opened,     \* absolute paths handed to os.Open so far, in call order
    rpath,      \* SpecRead: the path argument of readTargetsFile
    reads,      \* SpecRead: results of the readTargetsFile calls so far
    cfgFile,    \* SpecLoad: what is at the resolved configuration path
    env,        \* SpecLoad: the process environment, key -> value
    flags,      \* SpecLoad: the parsed command line (runtimeFlagSet + Changed)
    cfg,        \* SpecLoad: the RuntimeConfig being merged
    pc,         \* SpecLoad: position in Load and in the command after it
    err,        \* SpecLoad: the error Load returned ("" for nil)
    verr,       \* SpecLoad: the error Validate returned ("" for nil)
    applied,    \* SpecLoad: the layers cfg.apply was called with, in order
    names,      \* detector names handed to BuildDetectors
    dets,       \* detector instances BuildDetectors returned
    built,      \* names whose factory has been called, in call order
    berr,       \* the error BuildDetectors returned ("" for nil)
    rtargets,   \* targets handed to Run
    rpc,        \* position in BuildDetectors / Run
    ti,         \* Run: index of the target of the outer loop
    di,         \* Run: index of the detector of the inner loop
    results,    \* Run: the results slice
    rerr,       \* the error Run returned ("" for nil)
    detects,    \* the Detect calls started so far, <<target, detector name>>
    ctxDone,    \* the context has been cancelled
    atCancel,   \* what Run had done when the context was cancelled
    events,     \* SpecScan: events written by the emitter, in order
    tmp,        \* SpecScan: the temporary targets file
    outputs,    \* SpecScan: the outputs slice of the scan command
    files,      \* SpecScan: artifact and summary files written, in order
    calls,      \* SpecScan: calls made to the scan tool runner, in order
    fi,         \* SpecScan: index of the format of the format loop
    ei,         \* SpecScan: index of the next detection event to emit
    serr,       \* SpecScan: the error the scan command returned ("" for nil)
    wres,       \* SpecWrite: the results slice handed to writeDetectionsArtifact
    evts,       \* SpecEmit: the events each goroutine hands to Emit, in order
    gor,        \* SpecEmit: each goroutine's position in Emit and its locals
    clock,      \* SpecEmit: the value time.Now() returns
    mu,         \* SpecEmit: the goroutine holding the emitter's mutex (0: free)
    sink,       \* SpecEmit: the bytes the emitter's writer has received
    emits       \* SpecEmit: the Emit calls that have returned, in return order

loadVars == <<cfgFile, env, flags, err, applied>>
readVars == <<rpath, reads>>
detVars == <<names, dets, built, berr, rtargets, rpc, ti, di, results, rerr, detects,
             ctxDone, atCancel>>
scanVars == <<events, tmp, outputs, files, calls, fi, ei, serr>>

emitVars == <<evts, gor, clock, mu, sink, emits>>

vars == <<cwd, opened, rpath, reads, cfgFile, env, flags, cfg, pc, err, verr, applied,
          detVars, scanVars, wres, emitVars>>

----------------------------------------------------------------------------
(* strings *)

IsSpace(c) == c \in {" ", "\t", "\n", "\r"}

RECURSIVE TrimLeft(_)
TrimLeft(s) ==
    IF s = <<>> THEN <<>>
    ELSE IF IsSpace(Head(s)) THEN TrimLeft(Tail(s)) ELSE s

RECURSIVE TrimRight(_)
TrimRight(s) ==
    IF s = <<>> THEN <<>>
    ELSE IF IsSpace(s[Len(s)]) THEN TrimRight(SubSeq(s, 1, Len(s) - 1)) ELSE s

TrimSpace(s) == TrimRight(TrimLeft(s))

HasPrefix(s, pre) ==
    /\ Len(s) >= Len(pre)
    /\ SubSeq(s, 1, Len(pre)) = pre

Contains(s, sub) ==
    \E i \in 1..(Len(s) - Len(sub) + 1) : SubSeq(s, i, i + Len(sub) - 1) = sub

ContainsRune(s, c) == \E i \in 1..Len(s) : s[i] = c

RECURSIVE FieldsAcc(_, _, _, _)
FieldsAcc(s, delims, cur, out) ==
    IF s = <<>>
    THEN IF cur = <<>> THEN out ELSE Append(out, cur)
    ELSE IF Head(s) \in delims
         THEN FieldsAcc(Tail(s), delims, <<>>,
                        IF cur = <<>> THEN out ELSE Append(out, cur))
         ELSE FieldsAcc(Tail(s), delims, Append(cur, Head(s)), out)

FieldsFunc(s, delims) == FieldsAcc(s, delims, <<>>, <<>>)

RECURSIVE JoinSlash(_)
JoinSlash(segs) ==
    IF segs = <<>> THEN <<>>
    ELSE IF Len(segs) = 1 THEN segs[1]
    ELSE segs[1] \o <<"/">> \o JoinSlash(Tail(segs))

----------------------------------------------------------------------------
(* path/filepath on a Unix build *)

RECURSIVE CleanSegs(_, _, _)
CleanSegs(segs, rooted, stack) ==
    IF segs = <<>> THEN stack
    ELSE LET seg == Head(segs)
             rest == Tail(segs)
         IN  IF seg = <<".">> THEN CleanSegs(rest, rooted, stack)
             ELSE IF seg = <<".", ".">>
                  THEN IF stack # <<>> /\ stack[Len(stack)] # <<".", ".">>
                       THEN CleanSegs(rest, rooted, SubSeq(stack, 1, Len(stack) - 1))
                       ELSE IF rooted THEN CleanSegs(rest, rooted, stack)
                       ELSE CleanSegs(rest, rooted, Append(stack, seg))
                  ELSE CleanSegs(rest, rooted, Append(stack, seg))

Clean(p) ==
    IF p = <<>> THEN <<".">>
    ELSE LET rooted == Head(p) = "/"
             stack  == CleanSegs(FieldsFunc(p, {"/"}), rooted, <<>>)
         IN  IF rooted THEN <<"/">> \o JoinSlash(stack)
             ELSE IF stack = <<>> THEN <<".">> ELSE JoinSlash(stack)

IsAbs(p) == p # <<>> /\ Head(p) = "/"

\* filepath.Abs: [err, path]; a relative path needs os.Getwd
Abs(p, wd) ==
    IF IsAbs(p) THEN [err |-> "", path |-> Clean(p)]
    ELSE IF wd = <<>> THEN [err |-> "getwd", path |-> <<>>]
    ELSE [err |-> "", path |-> Clean(wd \o <<"/">> \o p)]

----------------------------------------------------------------------------
(* the file system the process runs against *)

P_etc_passwd == <<"/","e","t","c","/","p","a","s","s","w","d">>
P_etc_shadow == <<"/","e","t","c","/","s","h","a","d","o","w">>
P_etc_hosts  == <<"/","e","t","c","/","h","o","s","t","s">>
P_etc_group  == <<"/","e","t","c","/","g","r","o","u","p">>
P_proc       == <<"/","p","r","o","c","/">>
P_sys        == <<"/","s","y","s","/">>
P_dev        == <<"/","d","e","v","/">>

MaxPathLen == 4096

\* kind "file": regular file with these raw lines; "dir": a directory
\* (os.Open succeeds, reading fails); "none": nothing there
FileAt(abs) ==
    CASE abs = <<"/","w","/","t">> ->
            [kind |-> "file",
             lines |-> << <<" ","a"," ">>, <<>>, <<"#","c">>, <<"b">>, <<"a","\r">>, <<" ","\t">> >>]
      [] abs = <<"/","w","/","e">> -> [kind |-> "file", lines |-> <<>>]
      [] abs = <<"/","w","/","a">> -> [kind |-> "dir", lines |-> <<>>]
      [] abs = <<"/","w">> -> [kind |-> "dir", lines |-> <<>>]
      [] abs = <<"/","e","t","c">> -> [kind |-> "dir", lines |-> <<>>]
      [] abs = <<"/","p","r","o","c">> -> [kind |-> "dir", lines |-> <<>>]
      [] abs = <<"/","e","t","c","/","t">> -> [kind |-> "file", lines |-> << <<"c">> >>]
      [] abs = <<"/","t">> -> [kind |-> "file", lines |-> << <<"b">>, <<"b">> >>]
      [] abs = P_etc_passwd -> [kind |-> "file", lines |-> << <<"r","o","o","t">> >>]
      [] abs = <<"/","p","r","o","c","/","t">> -> [kind |-> "file", lines |-> << <<"p">> >>]
      [] abs = <<"/","a">> -> [kind |-> "dir", lines |-> <<>>]
      [] abs = <<"/","a","/","a">> -> [kind |-> "file", lines |-> <<>>]
      [] abs = <<"/","a","/","t">> ->
            [kind |-> "file",
             lines |-> << <<"#","a">>, <<" ","#"," ","b">>, <<"\t">>, <<"#">> >>]
      [] OTHER -> [kind |-> "none", lines |-> <<>>]

----------------------------------------------------------------------------
(* internal/config: the target list reader *)

validateFilePath(path) ==
    IF path = <<>> THEN "path cannot be empty"
    ELSE IF ContainsRune(path, "NUL") THEN "path contains null byte"
    ELSE IF Len(path) > MaxPathLen THEN "path too long"
    ELSE ""

\* isSystemFile that compares for equality only, without the prefix test
isSystemFile_ExactOnly(absPath) ==
    absPath \in {P_etc_passwd, P_etc_shadow, P_etc_hosts, P_etc_group,
                 P_proc, P_sys, P_dev}

isSystemFile(absPath) ==
    \E sysPath \in {P_etc_passwd, P_etc_shadow, P_etc_hosts, P_etc_group,
                    P_proc, P_sys, P_dev} :
        absPath = sysPath \/ HasPrefix(absPath, sysPath)

\* the comment test is made on the untrimmed line
RECURSIVE ScanLines_RawComment(_)
ScanLines_RawComment(lines) ==
    IF lines = <<>> THEN <<>>
    ELSE LET line == TrimSpace(Head(lines))
         IN  IF line = <<>> \/ HasPrefix(Head(lines), <<"#">>)
             THEN ScanLines_RawComment(Tail(lines))
             ELSE <<line>> \o ScanLines_RawComment(Tail(lines))

RECURSIVE ScanLines(_)
ScanLines(lines) ==
    IF lines = <<>> THEN <<>>
    ELSE LET line == TrimSpace(Head(lines))
         IN  IF line = <<>> \/ HasPrefix(line, <<"#">>)
             THEN ScanLines(Tail(lines))
             ELSE <<line>> \o ScanLines(Tail(lines))

\* [err, values, opens]: opens lists the paths given to os.Open
readTargetsFile(path, wd) ==
    LET fail(e) == [err |-> e, values |-> <<>>, opens |-> <<>>]
    IN  IF validateFilePath(path) # "" THEN fail(validateFilePath(path))
        ELSE LET cleanedPath == Clean(path)
             IN  IF Contains(cleanedPath, <<".", ".">>) THEN fail("path traversal detected")
                 ELSE LET a == Abs(cleanedPath, wd)
                      IN  IF a.err # "" THEN fail("invalid path")
                          ELSE IF isSystemFile(a.path) THEN fail("access to system file denied")
                          ELSE LET f == FileAt(a.path)
                               IN  IF f.kind = "none"
                                   THEN [err |-> "open", values |-> <<>>, opens |-> <<a.path>>]
                                   ELSE IF f.kind = "dir"
                                   THEN [err |-> "read", values |-> <<>>, opens |-> <<a.path>>]
                                   ELSE [err |-> "", values |-> ScanLines(f.lines),
                                         opens |-> <<a.path>>]

----------------------------------------------------------------------------
(* internal/config: parsing helpers *)

\* cleanList that trims but forgets to drop the blank candidates
cleanList_KeepBlank(values) ==
    [i \in 1..Len(values) |-> TrimSpace(values[i])]

RECURSIVE cleanList(_)
cleanList(values) ==
    IF values = <<>> THEN <<>>
    ELSE LET candidate == TrimSpace(Head(values))
         IN  IF candidate # <<>>
             THEN <<candidate>> \o cleanList(Tail(values))
             ELSE cleanList(Tail(values))

splitOnDelimiters(input, delims) ==
    IF input = <<>> THEN <<>>
    ELSE LET trimmed == TrimSpace(input)
         IN  IF trimmed = <<>> THEN <<>>
             ELSE cleanList(FieldsFunc(trimmed, delims))

ParseTargetsList(input) == splitOnDelimiters(input, {",", "\n", "\r"})

ParseFormats(input) == splitOnDelimiters(input, {",", "\n", "\r", " "})

ParseDetectors(input) == splitOnDelimiters(input, {",", "\n", "\r", " "})

Digits == <<"0", "1", "2", "3", "4", "5", "6", "7", "8", "9">>

DigitVal(c) == (CHOOSE i \in 1..10 : Digits[i] = c) - 1

RECURSIVE DigitsVal(_, _)
DigitsVal(s, acc) ==
    IF s = <<>> THEN acc ELSE DigitsVal(Tail(s), 10 * acc + DigitVal(Head(s)))

\* strconv.Atoi: [ok, val]; an optional sign, then one or more decimal digits
Atoi(s) ==
    LET signed == s # <<>> /\ Head(s) \in {"+", "-"}
        body   == IF signed THEN Tail(s) ELSE s
        isNum  == body # <<>> /\ \A i \in 1..Len(body) : \E d \in 1..10 : Digits[d] = body[i]
    IN  IF ~isNum THEN [ok |-> FALSE, val |-> 0]
        ELSE [ok |-> TRUE,
              val |-> IF signed /\ Head(s) = "-" THEN 0 - DigitsVal(body, 0)
                      ELSE DigitsVal(body, 0)]

ToLower(c) ==
    CASE c = "T" -> "t" [] c = "R" -> "r" [] c = "U" -> "u" [] c = "E" -> "e"
      [] c = "J" -> "j" [] c = "S" -> "s" [] c = "O" -> "o" [] c = "N" -> "n"
      [] c = "C" -> "c" [] c = "V" -> "v" [] c = "X" -> "x" [] c = "M" -> "m"
      [] c = "L" -> "l"
      [] OTHER -> c

EqualFold(s, t) ==
    /\ Len(s) = Len(t)
    /\ \A i \in 1..Len(s) : ToLower(s[i]) = ToLower(t[i])

----------------------------------------------------------------------------
(* internal/config: RuntimeConfig, Overrides, apply, Validate *)

MaxThreads == 64

S_hybrid       == <<"h","y","b","r","i","d">>
S_scan_results == <<"s","c","a","n","-","r","e","s","u","l","t","s">>
S_json         == <<"j","s","o","n">>
S_csv          == <<"c","s","v">>
S_version      == <<"v","e","r","s","i","o","n">>
S_true         == <<"t","r","u","e">>

DefaultRuntimeConfig ==
    [Targets |-> <<>>, Mode |-> S_hybrid, Threads |-> 10,
     OutputDir |-> S_scan_results, Formats |-> <<S_json, S_csv>>,
     Detectors |-> <<S_version>>, DryRun |-> FALSE, SummaryFile |-> <<>>]

\* Overrides{}: DryRunSet is "DryRun != nil", DryRun the pointed-to value
NoOverrides ==
    [Targets |-> <<>>, TargetsFile |-> <<>>, Mode |-> <<>>, Threads |-> 0,
     ThreadsSet |-> FALSE, OutputDir |-> <<>>, Formats |-> <<>>,
     Detectors |-> <<>>, DryRunSet |-> FALSE, DryRun |-> FALSE,
     SummaryFile |-> <<>>]

\* the if-blocks of apply, in source order
setTargets(c, src) ==
    IF Len(src.Targets) > 0 THEN [c EXCEPT !.Targets = cleanList(src.Targets)] ELSE c

\* the targets file is used only when the layer has no inline list
setTargetsFromFile_InlineWins(c, src, values) ==
    IF src.TargetsFile # <<>> /\ Len(src.Targets) = 0
    THEN [c EXCEPT !.Targets = values] ELSE c

\* values: what readTargetsFile(src.TargetsFile) returned without error
setTargetsFromFile(c, src, values) ==
    IF src.TargetsFile # <<>> THEN [c EXCEPT !.Targets = values] ELSE c

\* the mode is copied without the "is it set" guard
setMode_Unguarded(c, src) == [c EXCEPT !.Mode = src.Mode]

setMode(c, src) ==
    IF src.Mode # <<>> THEN [c EXCEPT !.Mode = src.Mode] ELSE c

\* the zero value is taken for "unset"
setThreads_ZeroUnset(c, src) ==
    IF src.Threads # 0 THEN [c EXCEPT !.Threads = src.Threads] ELSE c

setThreads(c, src) ==
    IF src.ThreadsSet THEN [c EXCEPT !.Threads = src.Threads] ELSE c

setOutputDir(c, src) ==
    IF src.OutputDir # <<>> THEN [c EXCEPT !.OutputDir = src.OutputDir] ELSE c

\* the layer's formats are appended to the list instead of replacing it
setFormats_Append(c, src) ==
    IF Len(src.Formats) > 0
    THEN [c EXCEPT !.Formats = c.Formats \o cleanList(src.Formats)] ELSE c

setFormats(c, src) ==
    IF Len(src.Formats) > 0 THEN [c EXCEPT !.Formats = cleanList(src.Formats)] ELSE c

setDetectors(c, src) ==
    IF Len(src.Detectors) > 0 THEN [c EXCEPT !.Detectors = cleanList(src.Detectors)] ELSE c

setDryRun(c, src) ==
    IF src.DryRunSet THEN [c EXCEPT !.DryRun = src.DryRun] ELSE c

setSummaryFile(c, src) ==
    IF src.SummaryFile # <<>> THEN [c EXCEPT !.SummaryFile = src.SummaryFile] ELSE c

\* [cfg, err, opens]: cfg is *c when apply returns
apply(c, src, wd) ==
    LET c1 == setTargets(c, src)
        rd == readTargetsFile(src.TargetsFile, wd)
    IN  IF src.TargetsFile # <<>> /\ rd.err # ""
        THEN [cfg |-> c1, err |-> rd.err, opens |-> rd.opens]
        ELSE LET c2 == setTargetsFromFile(c1, src, rd.values)
                 c3 == setMode(c2, src)
                 c4 == setThreads(c3, src)
                 c5 == setOutputDir(c4, src)
                 c6 == setFormats(c5, src)
                 c7 == setDetectors(c6, src)
                 c8 == setDryRun(c7, src)
                 c9 == setSummaryFile(c8, src)
             IN  [cfg |-> c9, err |-> "",
                  opens |-> IF src.TargetsFile # <<>> THEN rd.opens ELSE <<>>]

\* the upper bound of threads is off by one
Validate_OffByOne(c) ==
    IF Len(c.Targets) = 0 THEN "no targets configured"
    ELSE IF c.Threads < 1 \/ c.Threads >= MaxThreads THEN "threads must be between 1 and 64"
    ELSE IF c.Mode = <<>> THEN "scan mode must be specified"
    ELSE IF Len(c.Formats) = 0 THEN "at least one output format must be specified"
    ELSE IF c.OutputDir = <<>> THEN "output directory cannot be empty"
    ELSE ""

Validate(c) ==
    IF Len(c.Targets) = 0 THEN "no targets configured"
    ELSE IF c.Threads < 1 \/ c.Threads > MaxThreads THEN "threads must be between 1 and 64"
    ELSE IF c.Mode = <<>> THEN "scan mode must be specified"
    ELSE IF Len(c.Formats) = 0 THEN "at least one output format must be specified"
    ELSE IF c.OutputDir = <<>> THEN "output directory cannot be empty"
    ELSE ""

----------------------------------------------------------------------------
(* internal/config: the three override layers *)

\* targetList.UnmarshalYAML on a node of the given kind: [err, list]
UnmarshalTargets(node) ==
    CASE node.kind = "seq" ->
            [err |-> "",
             list |-> cleanList([i \in 1..Len(node.seq) |-> TrimSpace(node.seq[i])])]
      [] node.kind = "scalar" -> [err |-> "", list |-> ParseTargetsList(node.scalar)]
      [] node.kind = "absent" -> [err |-> "", list |-> <<>>]
      [] OTHER -> [err |-> "unsupported YAML type for targets", list |-> <<>>]

fileExists(f) == f.kind \notin {"missing", "dir"}

\* [err, ov] for the file at the configuration path
loadFromFile(f) ==
    IF f.kind = "unreadable" THEN [err |-> "read", ov |-> NoOverrides]
    ELSE IF f.kind = "badyaml" THEN [err |-> "yaml", ov |-> NoOverrides]
    ELSE IF UnmarshalTargets(f.raw.Targets).err # ""
    THEN [err |-> UnmarshalTargets(f.raw.Targets).err, ov |-> NoOverrides]
    ELSE [err |-> "",
          ov |-> [Targets |-> UnmarshalTargets(f.raw.Targets).list,
                  TargetsFile |-> f.raw.TargetsFile,
                  Mode |-> f.raw.Mode,
                  Threads |-> IF f.raw.ThreadsSet THEN f.raw.Threads ELSE 0,
                  ThreadsSet |-> f.raw.ThreadsSet,
                  OutputDir |-> f.raw.OutputDir,
                  Formats |-> f.raw.Formats,
                  Detectors |-> f.raw.Detectors,
                  DryRunSet |-> f.raw.DryRunSet,
                  DryRun |-> f.raw.DryRunSet /\ f.raw.DryRun,
                  SummaryFile |-> f.raw.SummaryFile]]

\* first non-empty value under the alias keys, in order
lookupEnv(e, keys) ==
    IF \E i \in 1..Len(keys) : e[keys[i]] # <<>>
    THEN e[keys[CHOOSE i \in 1..Len(keys) :
                  /\ e[keys[i]] # <<>>
                  /\ \A j \in 1..(i - 1) : e[keys[j]] = <<>>]]
    ELSE <<>>

\* the result of strconv.Atoi is used without looking at its error
overridesFromEnv_IgnoreAtoiErr(e) ==
    LET tgt == lookupEnv(e, <<"WPHUNTER_TARGETS", "WORKER_TARGETS">>)
        thr == lookupEnv(e, <<"WPHUNTER_THREADS", "WORKER_THREADS">>)
        fmt == lookupEnv(e, <<"WPHUNTER_FORMATS", "WORKER_FORMATS">>)
        dry == lookupEnv(e, <<"WPHUNTER_DRY_RUN", "WORKER_DRY_RUN">>)
        det == lookupEnv(e, <<"WPHUNTER_DETECTORS", "WORKER_DETECTORS">>)
    IN  [Targets |-> IF tgt # <<>> THEN ParseTargetsList(tgt) ELSE <<>>,
         TargetsFile |-> lookupEnv(e, <<"WPHUNTER_TARGETS_FILE", "WORKER_TARGETS_FILE">>),
         Mode |-> lookupEnv(e, <<"WPHUNTER_MODE", "WORKER_MODE">>),
         Threads |-> IF thr # <<>> THEN Atoi(thr).val ELSE 0,
         ThreadsSet |-> thr # <<>>,
         OutputDir |-> lookupEnv(e, <<"WPHUNTER_OUTPUT_DIR", "WORKER_OUTPUT_DIR">>),
         Formats |-> IF fmt # <<>> THEN ParseFormats(fmt) ELSE <<>>,
         Detectors |-> IF det # <<>> THEN ParseDetectors(det) ELSE <<>>,
         DryRunSet |-> dry # <<>>,
         DryRun |-> dry # <<>> /\ (EqualFold(dry, S_true) \/ dry = <<"1">>),
         SummaryFile |-> lookupEnv(e, <<"WPHUNTER_SUMMARY_FILE", "WORKER_SUMMARY_FILE">>)]

overridesFromEnv(e) ==
    LET tgt == lookupEnv(e, <<"WPHUNTER_TARGETS", "WORKER_TARGETS">>)
        thr == lookupEnv(e, <<"WPHUNTER_THREADS", "WORKER_THREADS">>)
        fmt == lookupEnv(e, <<"WPHUNTER_FORMATS", "WORKER_FORMATS">>)
        dry == lookupEnv(e, <<"WPHUNTER_DRY_RUN", "WORKER_DRY_RUN">>)
        det == lookupEnv(e, <<"WPHUNTER_DETECTORS", "WORKER_DETECTORS">>)
    IN  [Targets |-> IF tgt # <<>> THEN ParseTargetsList(tgt) ELSE <<>>,
         TargetsFile |-> lookupEnv(e, <<"WPHUNTER_TARGETS_FILE", "WORKER_TARGETS_FILE">>),
         Mode |-> lookupEnv(e, <<"WPHUNTER_MODE", "WORKER_MODE">>),
         Threads |-> IF thr # <<>> /\ Atoi(thr).ok THEN Atoi(thr).val ELSE 0,
         ThreadsSet |-> thr # <<>> /\ Atoi(thr).ok,
         OutputDir |-> lookupEnv(e, <<"WPHUNTER_OUTPUT_DIR", "WORKER_OUTPUT_DIR">>),
         Formats |-> IF fmt # <<>> THEN ParseFormats(fmt) ELSE <<>>,
         Detectors |-> IF det # <<>> THEN ParseDetectors(det) ELSE <<>>,
         DryRunSet |-> dry # <<>>,
         DryRun |-> dry # <<>> /\ (EqualFold(dry, S_true) \/ dry = <<"1">>),
         SummaryFile |-> lookupEnv(e, <<"WPHUNTER_SUMMARY_FILE", "WORKER_SUMMARY_FILE">>)]

\* f.changed is the set of flag names for which cmd.Flags().Changed holds
toOverrides(f) ==
    [Targets |-> IF "targets" \in f.changed THEN ParseTargetsList(f.targets) ELSE <<>>,
     TargetsFile |-> IF "targets-file" \in f.changed THEN f.targetsFile ELSE <<>>,
     Mode |-> IF "mode" \in f.changed THEN f.mode ELSE <<>>,
     Threads |-> IF "threads" \in f.changed THEN f.threads ELSE 0,
     ThreadsSet |-> "threads" \in f.changed,
     OutputDir |-> IF "output-dir" \in f.changed THEN f.outputDir ELSE <<>>,
     Formats |-> IF "formats" \in f.changed THEN ParseFormats(f.formats) ELSE <<>>,
     Detectors |-> IF "detectors" \in f.changed THEN ParseDetectors(f.detectors) ELSE <<>>,
     DryRunSet |-> "dry-run" \in f.changed,
     DryRun |-> "dry-run" \in f.changed /\ f.dryRun,
     SummaryFile |-> IF "summary-file" \in f.changed THEN f.summaryFile ELSE <<>>]

----------------------------------------------------------------------------
(* SpecLoad: one run of Loader.Load followed by RuntimeConfig.Validate, as  *)
(* the scan and init commands do, over a configuration file, an            *)
(* environment and a command line                                           *)

ProbeWidth == 1

ThreadVals == UNION { {1 - k, k, MaxThreads + 1 - k, MaxThreads + k} : k \in 1..ProbeWidth }

FileRawNone ==
    [Targets |-> [kind |-> "absent", scalar |-> <<>>, seq |-> <<>>],
     TargetsFile |-> <<>>, Mode |-> <<>>, Threads |-> 0, ThreadsSet |-> FALSE,
     OutputDir |-> <<>>, Formats |-> <<>>, Detectors |-> <<>>,
     DryRunSet |-> FALSE, DryRun |-> FALSE, SummaryFile |-> <<>>]

FileRaws ==
    {FileRawNone}
    \cup { [FileRawNone EXCEPT !.Targets = n] :
             n \in { [kind |-> "scalar", scalar |-> <<"a", ",", " ", "c">>, seq |-> <<>>],
                     [kind |-> "seq", scalar |-> <<>>,
                      seq |-> << <<" ", "c", " ">>, <<>>, <<"c">> >>],
                     [kind |-> "map", scalar |-> <<>>, seq |-> <<>>] } }
    \cup { [FileRawNone EXCEPT !.TargetsFile = f] :
             f \in { <<"t">>, <<"m">>, <<".", ".", "/", "t">> } }
    \cup { [FileRawNone EXCEPT !.Targets =
                [kind |-> "seq", scalar |-> <<>>, seq |-> << <<"c">> >>],
            !.TargetsFile = f] : f \in { <<"e">>, <<"/", "e", "t", "c", "/", "t">> } }
    \cup { [FileRawNone EXCEPT !.Mode = <<"m", "1">>] }
    \cup { [FileRawNone EXCEPT !.ThreadsSet = TRUE, !.Threads = n] : n \in {0, 6} }
    \cup { [FileRawNone EXCEPT !.OutputDir = <<"o", "1">>] }
    \cup { [FileRawNone EXCEPT !.Formats = l] :
             l \in { <<S_json>>, << <<" ", "x", "m", "l">>, <<>>, <<"x", "m", "l">> >>,
                     << <<" ">> >> } }
    \cup { [FileRawNone EXCEPT !.Detectors = l] :
             l \in { << <<"p">> >>, << <<"p", "\t">>, <<" ">> >> } }
    \cup { [FileRawNone EXCEPT !.DryRunSet = TRUE, !.DryRun = b] : b \in BOOLEAN }
    \cup { [FileRawNone EXCEPT !.ThreadsSet = TRUE, !.Threads = 6,
                               !.DryRunSet = TRUE, !.DryRun = TRUE] }
    \cup { [FileRawNone EXCEPT !.SummaryFile = <<"s", "1">>] }

FileInputs ==
    { [kind |-> k, raw |-> FileRawNone] : k \in {"missing", "dir", "unreadable", "badyaml"} }
    \cup { [kind |-> "ok", raw |-> r] : r \in FileRaws }

EnvKeys ==
    { "WPHUNTER_TARGETS", "WORKER_TARGETS", "WPHUNTER_TARGETS_FILE", "WORKER_TARGETS_FILE",
      "WPHUNTER_MODE", "WORKER_MODE", "WPHUNTER_THREADS", "WORKER_THREADS",
      "WPHUNTER_OUTPUT_DIR", "WORKER_OUTPUT_DIR", "WPHUNTER_FORMATS", "WORKER_FORMATS",
      "WPHUNTER_DRY_RUN", "WORKER_DRY_RUN", "WPHUNTER_SUMMARY_FILE", "WORKER_SUMMARY_FILE",
      "WPHUNTER_DETECTORS", "WORKER_DETECTORS" }

EnvNone == [k \in EnvKeys |-> <<>>]

EnvInputs ==
    {EnvNone}
    \cup { [EnvNone EXCEPT !["WPHUNTER_TARGETS"] = v] :
             v \in { <<"a", ",", "b">>, <<" ", "b", " ", ",", " ", ",", "b">>, <<",">> } }
    \cup { [EnvNone EXCEPT !["WORKER_TARGETS_FILE"] = v] :
             v \in { <<"t">>, <<"m">>, P_etc_passwd } }
    \cup { [EnvNone EXCEPT !["WPHUNTER_TARGETS"] = <<"b">>, !["WPHUNTER_TARGETS_FILE"] = <<"t">>] }
    \cup { [EnvNone EXCEPT !["WPHUNTER_MODE"] = <<"m", "2">>],
           [EnvNone EXCEPT !["WORKER_MODE"] = <<"m", "w">>],
           [EnvNone EXCEPT !["WPHUNTER_MODE"] = <<"m", "2">>, !["WORKER_MODE"] = <<"m", "w">>] }
    \cup { [EnvNone EXCEPT !["WPHUNTER_THREADS"] = v] :
             v \in { <<"0">>, <<"1", "2">>, <<"6", "5">>, <<"-", "1">>, <<"+", "7">>,
                     <<"x", "1">>, <<"1", "x">>, <<"-">>, <<" ", "1">> } }
    \cup { [EnvNone EXCEPT !["WPHUNTER_THREADS"] = <<"1", "2">>, !["WPHUNTER_DRY_RUN"] = S_true],
           [EnvNone EXCEPT !["WPHUNTER_THREADS"] = <<"1", "x">>,
                           !["WPHUNTER_TARGETS_FILE"] = <<"m">>] }
    \cup { [EnvNone EXCEPT !["WPHUNTER_OUTPUT_DIR"] = <<"o", "2">>] }
    \cup { [EnvNone EXCEPT !["WPHUNTER_FORMATS"] = v] :
             v \in { S_csv, <<"c", "s", "v", " ", "c", "s", "v">> } }
    \cup { [EnvNone EXCEPT !["WPHUNTER_DETECTORS"] = v] : v \in { <<"q">>, <<" ">> } }
    \cup { [EnvNone EXCEPT !["WPHUNTER_DRY_RUN"] = v] :
             v \in { S_true, <<"T", "r", "u", "e">>, <<"1">>,
                     <<"f", "a", "l", "s", "e">>, <<"0">> } }
    \cup { [EnvNone EXCEPT !["WPHUNTER_SUMMARY_FILE"] = <<"s", "2">>] }

FlagsNone ==
    [targets |-> <<>>, targetsFile |-> <<>>, mode |-> <<>>, threads |-> 0,
     outputDir |-> <<>>, formats |-> <<>>, detectors |-> <<>>, dryRun |-> FALSE,
     summaryFile |-> <<>>, changed |-> {}]

FlagInputs ==
    {FlagsNone}
    \cup { [FlagsNone EXCEPT !.targets = v, !.changed = {"targets"}] :
             v \in { <<"d">>, <<"d", ",", "d", "\n", "a">>, <<>> } }
    \cup { [FlagsNone EXCEPT !.targetsFile = v, !.changed = {"targets-file"}] :
             v \in { <<"t">>, <<"e">>, <<"m">>, <<>>, <<"/", "p", "r", "o", "c", "/", "t">> } }
    \cup { [FlagsNone EXCEPT !.targets = <<"d">>, !.targetsFile = v,
                             !.changed = {"targets", "targets-file"}] :
             v \in { <<"t">>, <<"m">> } }
    \cup { [FlagsNone EXCEPT !.mode = v, !.changed = {"mode"}] : v \in { <<"m", "3">>, <<>> } }
    \cup { [FlagsNone EXCEPT !.threads = n, !.changed = {"threads"}] : n \in ThreadVals }
    \cup { [FlagsNone EXCEPT !.outputDir = <<"o", "3">>, !.changed = {"output-dir"}] }
    \cup { [FlagsNone EXCEPT !.formats = v, !.changed = {"formats"}] :
             v \in { S_json, <<>> } }
    \cup { [FlagsNone EXCEPT !.detectors = v, !.changed = {"detectors"}] :
             v \in { <<"r", ",", "r">>, <<>> } }
    \cup { [FlagsNone EXCEPT !.dryRun = b, !.changed = {"dry-run"}] : b \in BOOLEAN }
    \cup { [FlagsNone EXCEPT !.threads = 0, !.dryRun = FALSE,
                             !.changed = {"threads", "dry-run"}] }
    \cup { [FlagsNone EXCEPT !.summaryFile = <<"s", "3">>, !.changed = {"summary-file"}] }

\* no detector call and no scan command is under way
DetIdle ==
    /\ names = <<>>
    /\ dets = <<>>
    /\ built = <<>>
    /\ berr = ""
    /\ rtargets = <<>>
    /\ rpc = "idle"
    /\ ti = 0
    /\ di = 0
    /\ results = <<>>
    /\ rerr = ""
    /\ detects = <<>>
    /\ ctxDone = FALSE
    /\ atCancel = [cancelled |-> FALSE, results |-> <<>>, inflight |-> FALSE]

ScanIdle ==
    /\ events = <<>>
    /\ tmp = [created |-> FALSE, present |-> FALSE, deferred |-> FALSE]
    /\ outputs = <<>>
    /\ files = <<>>
    /\ calls = <<>>
    /\ fi = 0
    /\ ei = 0
    /\ serr = ""

\* a Go slice value: nil, or a (possibly empty) list of elements
NilSlice == [isNil |-> TRUE, elems |-> <<>>]

\* no goroutine is using the emitter
EmitIdle ==
    /\ evts = <<>>
    /\ gor = <<>>
    /\ clock = 0
    /\ mu = 0
    /\ sink = <<>>
    /\ emits = <<>>

InitLoad ==
    /\ cwd = <<"/", "w">>
    /\ opened = <<>>
    /\ rpath = <<>>
    /\ reads = <<>>
    /\ cfgFile \in FileInputs
    /\ env \in EnvInputs
    /\ flags \in FlagInputs
    /\ cfg = DefaultRuntimeConfig
    /\ pc = "file"
    /\ err = ""
    /\ verr = ""
    /\ applied = <<>>
    /\ DetIdle
    /\ ScanIdle
    /\ wres = NilSlice
    /\ EmitIdle

\* Load goes on to the next layer although cfg.apply returned an error
ApplyLayer_ContinueOnError(layer, src, next) ==
    LET r == apply(cfg, src, cwd)
    IN  /\ cfg' = r.cfg
        /\ opened' = opened \o r.opens
        /\ applied' = Append(applied, layer)
        /\ err' = r.err
        /\ pc' = next

\* cfg.apply(src) inside Load: on error Load returns, otherwise it goes on
ApplyLayer(layer, src, next) ==
    LET r == apply(cfg, src, cwd)
    IN  /\ cfg' = r.cfg
        /\ opened' = opened \o r.opens
        /\ applied' = Append(applied, layer)
        /\ err' = r.err
        /\ pc' = IF r.err # "" THEN "failed" ELSE next

\* a configuration file that fails to load is skipped like a missing one
LoadFile_SkipBadFile ==
    /\ pc = "file"
    /\ IF fileExists(cfgFile) /\ loadFromFile(cfgFile).err = ""
       THEN ApplyLayer("file", loadFromFile(cfgFile).ov, "env")
       ELSE /\ pc' = "env"
            /\ UNCHANGED <<cfg, opened, applied, err>>
    /\ UNCHANGED <<cwd, rpath, reads, cfgFile, env, flags, verr, detVars, scanVars, wres, emitVars>>

LoadFile ==
    /\ pc = "file"
    /\ IF fileExists(cfgFile)
       THEN IF loadFromFile(cfgFile).err # ""
            THEN /\ err' = loadFromFile(cfgFile).err
                 /\ pc' = "failed"
                 /\ UNCHANGED <<cfg, opened, applied>>
            ELSE ApplyLayer("file", loadFromFile(cfgFile).ov, "env")
       ELSE /\ pc' = "env"
            /\ UNCHANGED <<cfg, opened, applied, err>>
    /\ UNCHANGED <<cwd, rpath, reads, cfgFile, env, flags, verr, detVars, scanVars, wres, emitVars>>

LoadEnv ==
    /\ pc = "env"
    /\ ApplyLayer("env", overridesFromEnv(env), "override")
    /\ UNCHANGED <<cwd, rpath, reads, cfgFile, env, flags, verr, detVars, scanVars, wres, emitVars>>

LoadOverride ==
    /\ pc = "override"
    /\ ApplyLayer("override", toOverrides(flags), "loaded")
    /\ UNCHANGED <<cwd, rpath, reads, cfgFile, env, flags, verr, detVars, scanVars, wres, emitVars>>

\* the command goes on whatever Validate returned
RunValidate_Ignore ==
    /\ pc = "loaded"
    /\ verr' = Validate(cfg)
    /\ pc' = "valid"
    /\ UNCHANGED <<cwd, opened, rpath, reads, cfgFile, env, flags, cfg, err, applied, detVars, scanVars,
                   wres, emitVars>>

\* the command validates the configuration Load returned
RunValidate ==
    /\ pc = "loaded"
    /\ verr' = Validate(cfg)
    /\ pc' = IF Validate(cfg) # "" THEN "invalid" ELSE "valid"
    /\ UNCHANGED <<cwd, opened, rpath, reads, cfgFile, env, flags, cfg, err, applied, detVars, scanVars,
                   wres, emitVars>>

NextLoad == LoadFile \/ LoadEnv \/ LoadOverride \/ RunValidate

SpecLoad == InitLoad /\ [][NextLoad]_vars

----------------------------------------------------------------------------
(* SpecRead: calls of readTargetsFile on probe paths *)

MaxSegs == 3
MaxReads == 2

PathSegs == { <<".", ".">>, <<".">>, <<"a">>, <<"t">>, <<"e","t","c">>,
              <<"p","a","s","s","w","d">>, <<"p","r","o","c">> }

SegLists == UNION { [1..k -> PathSegs] : k \in 0..MaxSegs }

ProbePaths ==
    { pre \o JoinSlash(segs) : pre \in {<<>>, <<"/">>}, segs \in SegLists }
    \cup { <<"t", "NUL">>, <<"NUL">>, <<"a", ".", ".", "t">>,
           <<"/","e","t","c","/","p","a","s","s","w","d","2">>,
           <<"/","e","t","c","/","/","s","h","a","d","o","w","/">>,
           [i \in 1..(MaxPathLen + 1) |-> "a"] }

Cwds == { <<"/","w">>, <<"/","e","t","c">>, <<"/">>, <<>> }

InitRead ==
    /\ cwd \in Cwds
    /\ rpath \in ProbePaths
    /\ opened = <<>>
    /\ reads = <<>>
    /\ cfgFile = [kind |-> "missing", raw |-> FileRawNone]
    /\ env = EnvNone
    /\ flags = FlagsNone
    /\ cfg = DefaultRuntimeConfig
    /\ pc = "idle"
    /\ err = ""
    /\ verr = ""
    /\ applied = <<>>
    /\ DetIdle
    /\ ScanIdle
    /\ wres = NilSlice
    /\ EmitIdle

ReadCall ==
    /\ Len(reads) < MaxReads
    /\ LET r == readTargetsFile(rpath, cwd)
       IN  /\ reads' = Append(reads, [err |-> r.err, values |-> r.values])
           /\ opened' = opened \o r.opens
    /\ UNCHANGED <<cwd, rpath, cfgFile, env, flags, cfg, pc, err, verr, applied, detVars, scanVars,
                   wres, emitVars>>

NextRead == ReadCall

SpecRead == InitRead /\ [][NextRead]_vars

----------------------------------------------------------------------------
(* properties of SpecLoad *)

\* the Overrides each layer contributes; the file layer contributes nothing
\* when there is no regular file at the configuration path
FileOv == IF fileExists(cfgFile) THEN loadFromFile(cfgFile).ov ELSE NoOverrides
EnvOv  == overridesFromEnv(env)
FlagOv == toOverrides(flags)

LoadSucceeded == pc \in {"loaded", "valid", "invalid"}

\* the layer of the latest cfg.apply call
LastOv ==
    CASE applied[Len(applied)] = "file" -> FileOv
      [] applied[Len(applied)] = "env" -> EnvOv
      [] OTHER -> FlagOv

LastApplyOk == applied # <<>> /\ err = ""

NoDuplicates(l) == \A i, j \in 1..Len(l) : l[i] = l[j] => i = j

\* C1: after a successful Load every scalar field (mode, threads, outputDir,
\* dryRun, summaryFile) has the value of the highest-precedence layer that
\* sets it, in the order explicit > environment > file > defaults.
Thm_C1 ==
    LoadSucceeded =>
        /\ cfg.Mode = IF FlagOv.Mode # <<>> THEN FlagOv.Mode
                      ELSE IF EnvOv.Mode # <<>> THEN EnvOv.Mode
                      ELSE IF FileOv.Mode # <<>> THEN FileOv.Mode
                      ELSE DefaultRuntimeConfig.Mode
        /\ cfg.Threads = IF FlagOv.ThreadsSet THEN FlagOv.Threads
                         ELSE IF EnvOv.ThreadsSet THEN EnvOv.Threads
                         ELSE IF FileOv.ThreadsSet THEN FileOv.Threads
                         ELSE DefaultRuntimeConfig.Threads
        /\ cfg.OutputDir = IF FlagOv.OutputDir # <<>> THEN FlagOv.OutputDir
                           ELSE IF EnvOv.OutputDir # <<>> THEN EnvOv.OutputDir
                           ELSE IF FileOv.OutputDir # <<>> THEN FileOv.OutputDir
                           ELSE DefaultRuntimeConfig.OutputDir
        /\ cfg.DryRun = IF FlagOv.DryRunSet THEN FlagOv.DryRun
                        ELSE IF EnvOv.DryRunSet THEN EnvOv.DryRun
                        ELSE IF FileOv.DryRunSet THEN FileOv.DryRun
                        ELSE DefaultRuntimeConfig.DryRun
        /\ cfg.SummaryFile = IF FlagOv.SummaryFile # <<>> THEN FlagOv.SummaryFile
                             ELSE IF EnvOv.SummaryFile # <<>> THEN EnvOv.SummaryFile
                             ELSE IF FileOv.SummaryFile # <<>> THEN FileOv.SummaryFile
                             ELSE DefaultRuntimeConfig.SummaryFile

\* C1 witness: file and environment both set the mode, the command line does
\* not, and the merged mode is the environment's.
Wit_C1 ==
    /\ LoadSucceeded
    /\ FileOv.Mode # <<>> /\ EnvOv.Mode # <<>> /\ FileOv.Mode # EnvOv.Mode
    /\ FlagOv.Mode = <<>>
    /\ cfg.Mode = EnvOv.Mode

\* C2 as stated: once a layer that sets a list field has been applied, the
\* merged list is exactly that layer's list (targets: when the layer has no
\* targets file, which C3 covers).
Orig_C2 ==
    LastApplyOk =>
        /\ (Len(LastOv.Targets) > 0 /\ LastOv.TargetsFile = <<>>)
                => cfg.Targets = LastOv.Targets
        /\ Len(LastOv.Formats) > 0 => cfg.Formats = LastOv.Formats
        /\ Len(LastOv.Detectors) > 0 => cfg.Detectors = LastOv.Detectors

\* C2 amended: once a layer that carries a non-empty list for a list field
\* has been applied, the merged list is that layer's list with every entry
\* trimmed and the blank entries dropped, in the layer's order, and nothing
\* of a lower layer's list is left (targets: when the layer has no targets
\* file).
Thm_C2 ==
    LastApplyOk =>
        /\ (Len(LastOv.Targets) > 0 /\ LastOv.TargetsFile = <<>>)
                => cfg.Targets = cleanList(LastOv.Targets)
        /\ Len(LastOv.Formats) > 0 => cfg.Formats = cleanList(LastOv.Formats)
        /\ Len(LastOv.Detectors) > 0 => cfg.Detectors = cleanList(LastOv.Detectors)

\* C2 witness: the file layer has just replaced the default formats by a
\* list that needed trimming.
Wit_C2 ==
    /\ LastApplyOk
    /\ applied = <<"file">>
    /\ Len(FileOv.Formats) > 0
    /\ cleanList(FileOv.Formats) # <<>>
    /\ cleanList(FileOv.Formats) # FileOv.Formats
    /\ cfg.Formats = cleanList(FileOv.Formats)

\* C3: when a layer carries both an inline target list and a targets file
\* and has been applied, the working targets are the entries read from the
\* file, not the inline list.
Thm_C3 ==
    (LastApplyOk /\ Len(LastOv.Targets) > 0 /\ LastOv.TargetsFile # <<>>)
        => cfg.Targets = readTargetsFile(LastOv.TargetsFile, cwd).values

\* C3 witness: the command line gave both, and the merged targets are the
\* lines of the file and differ from the inline list.
Wit_C3 ==
    /\ pc = "loaded"
    /\ Len(FlagOv.Targets) > 0 /\ FlagOv.TargetsFile # <<>>
    /\ cfg.Targets # cleanList(FlagOv.Targets)
    /\ Len(cfg.Targets) > 0

\* C4: a layer that explicitly sets threads to 0 or dryRun to false has set
\* the field: with no higher layer setting it, the merged value is 0 / false
\* whatever the lower layers set; and applying a layer that leaves the field
\* unset does not change it.
Thm_C4 ==
    /\ [](LoadSucceeded =>
            /\ ("threads" \in flags.changed /\ flags.threads = 0) => cfg.Threads = 0
            /\ ("dry-run" \in flags.changed /\ ~flags.dryRun) => cfg.DryRun = FALSE
            /\ ("threads" \notin flags.changed
                    /\ lookupEnv(env, <<"WPHUNTER_THREADS", "WORKER_THREADS">>) = <<"0">>)
                    => cfg.Threads = 0
            /\ ("dry-run" \notin flags.changed
                    /\ lookupEnv(env, <<"WPHUNTER_DRY_RUN", "WORKER_DRY_RUN">>)
                           = <<"f", "a", "l", "s", "e">>)
                    => cfg.DryRun = FALSE
            /\ ("threads" \notin flags.changed /\ ~EnvOv.ThreadsSet
                    /\ fileExists(cfgFile) /\ cfgFile.raw.ThreadsSet
                    /\ cfgFile.raw.Threads = 0)
                    => cfg.Threads = 0)
    /\ [][ /\ (LoadFile /\ ~FileOv.ThreadsSet) => cfg'.Threads = cfg.Threads
           /\ (LoadFile /\ ~FileOv.DryRunSet) => cfg'.DryRun = cfg.DryRun
           /\ (LoadEnv /\ ~EnvOv.ThreadsSet) => cfg'.Threads = cfg.Threads
           /\ (LoadEnv /\ ~EnvOv.DryRunSet) => cfg'.DryRun = cfg.DryRun
           /\ (LoadOverride /\ "threads" \notin flags.changed) => cfg'.Threads = cfg.Threads
           /\ (LoadOverride /\ "dry-run" \notin flags.changed) => cfg'.DryRun = cfg.DryRun
         ]_vars

\* C4 witness: the environment set threads 12 and dryRun true, the command
\* line set threads 0 and dryRun false, and the merged values are 0 and
\* false.
Wit_C4 ==
    /\ LoadSucceeded
    /\ EnvOv.ThreadsSet /\ EnvOv.Threads # 0 /\ EnvOv.DryRunSet /\ EnvOv.DryRun
    /\ flags.changed = {"threads", "dry-run"} /\ flags.threads = 0 /\ ~flags.dryRun
    /\ cfg.Threads = 0 /\ cfg.DryRun = FALSE

\* C5 as stated: with --detectors "" on the command line the merged
\* detectors list is empty.
Orig_C5 ==
    (LoadSucceeded /\ "detectors" \in flags.changed /\ flags.detectors = <<>>)
        => cfg.Detectors = <<>>

\* C6: for a merged config whose other fields are valid, Validate fails
\* exactly when threads is below 1 or above MaxThreads.
Thm_C6 ==
    (/\ pc \in {"valid", "invalid"}
     /\ Len(cfg.Targets) > 0 /\ cfg.Mode # <<>>
     /\ Len(cfg.Formats) > 0 /\ cfg.OutputDir # <<>>)
        => ((verr # "") <=> (cfg.Threads < 1 \/ cfg.Threads > MaxThreads))

\* C6 witness: the command line supplied threads = MaxThreads, the other
\* fields are valid and Validate passed.
Wit_C6 ==
    /\ pc = "valid"
    /\ "threads" \in flags.changed /\ flags.threads = MaxThreads
    /\ cfg.Threads = MaxThreads
    /\ verr = ""

\* C7 as stated: after a successful Load the merged targets have no
\* duplicates.
Orig_C7 == LoadSucceeded => NoDuplicates(cfg.Targets)

\* C7 amended: after a successful Load the merged targets have no blank
\* entry and no entry with surrounding whitespace, whichever source supplied
\* them; duplicates are kept.
Thm_C7 ==
    LoadSucceeded =>
        \A i \in 1..Len(cfg.Targets) :
            /\ cfg.Targets[i] # <<>>
            /\ ~IsSpace(cfg.Targets[i][1])
            /\ ~IsSpace(cfg.Targets[i][Len(cfg.Targets[i])])

\* C7 witness: the YAML sequence had a blank entry and a repeated one; the
\* merged targets keep the repetition and drop the blank.
Wit_C7 ==
    /\ LoadSucceeded
    /\ cfgFile.kind = "ok" /\ cfgFile.raw.Targets.kind = "seq"
    /\ \E i \in 1..Len(cfgFile.raw.Targets.seq) : cfgFile.raw.Targets.seq[i] = <<>>
    /\ cfg.Targets = FileOv.Targets
    /\ ~NoDuplicates(cfg.Targets)

EnvThreadsRaw == lookupEnv(env, <<"WPHUNTER_THREADS", "WORKER_THREADS">>)

\* C8: a threads environment variable that is not an integer is treated as
\* unset: applying the environment layer fails only on a targets file, and
\* the merged threads is the explicit layer's when set, else the file's,
\* else the default.
Thm_C8 ==
    (EnvThreadsRaw # <<>> /\ ~Atoi(EnvThreadsRaw).ok) =>
        /\ (applied # <<>> /\ applied[Len(applied)] = "env")
                => /\ err # "" => EnvOv.TargetsFile # <<>>
                   /\ cfg.Threads = IF FileOv.ThreadsSet THEN FileOv.Threads
                                    ELSE DefaultRuntimeConfig.Threads
        /\ LoadSucceeded
                => cfg.Threads = IF "threads" \in flags.changed THEN flags.threads
                                 ELSE IF FileOv.ThreadsSet THEN FileOv.Threads
                                 ELSE DefaultRuntimeConfig.Threads

\* C8 witness: WPHUNTER_THREADS does not parse, the file set threads, the
\* command line did not, and Load succeeded with the file's value.
Wit_C8 ==
    /\ LoadSucceeded
    /\ EnvThreadsRaw # <<>> /\ ~Atoi(EnvThreadsRaw).ok
    /\ FileOv.ThreadsSet /\ "threads" \notin flags.changed
    /\ cfg.Threads = FileOv.Threads
    /\ cfg.Threads # DefaultRuntimeConfig.Threads

\* C9: with no regular file at the configuration path the file layer is
\* skipped without error and Load merges defaults, environment and explicit
\* overrides (failing only if one of those fails); with a file that fails
\* to load, Load returns the error and applies neither the environment nor
\* the explicit layer.
Thm_C9 ==
    /\ ~fileExists(cfgFile) =>
          /\ \A i \in 1..Len(applied) : applied[i] # "file"
          /\ pc = "env" => (err = "" /\ cfg = DefaultRuntimeConfig)
          /\ pc = "failed" => (applied # <<>> /\ LastOv.TargetsFile # <<>>)
          /\ LoadSucceeded =>
                /\ err = ""
                /\ applied = <<"env", "override">>
                /\ cfg = apply(apply(DefaultRuntimeConfig, EnvOv, cwd).cfg, FlagOv, cwd).cfg
    /\ (fileExists(cfgFile) /\ loadFromFile(cfgFile).err # "") =>
          /\ pc \in {"file", "failed"}
          /\ applied = <<>>
          /\ cfg = DefaultRuntimeConfig
          /\ pc = "failed" => err # ""

\* C9 witness: the configuration file does not parse, environment and
\* command line both carry settings, and Load has failed.
Wit_C9 ==
    /\ pc = "failed"
    /\ cfgFile.kind = "badyaml"
    /\ EnvOv # NoOverrides /\ FlagOv # NoOverrides
    /\ err # ""

----------------------------------------------------------------------------
(* properties of SpecRead *)

SystemPaths == {P_etc_passwd, P_etc_shadow, P_etc_hosts, P_etc_group, P_proc, P_sys, P_dev}

\* abs is the denylisted path d itself or lies below it
AtOrUnder(abs, d) ==
    \/ abs = d
    \/ HasPrefix(abs, IF d[Len(d)] = "/" THEN d ELSE d \o <<"/">>)

\* the paths C10 calls rejected
RejectedPath(path, wd) ==
    \/ path = <<>>
    \/ ContainsRune(path, "NUL")
    \/ Len(path) > MaxPathLen
    \/ Contains(Clean(path), <<".", ".">>)
    \/ /\ Abs(Clean(path), wd).err = ""
       /\ \E d \in SystemPaths : AtOrUnder(Abs(Clean(path), wd).path, d)

ReadFile == FileAt(Abs(Clean(rpath), cwd).path)

KeptLine(l) == l # <<>> /\ l[1] # "#"

\* C11: a successful read returns the file's lines trimmed, in order,
\* without the blank lines and the lines that begin with '#'; two reads of
\* the same file return the same sequence, and an empty or comments-only
\* file gives the empty sequence without error.
Thm_C11 ==
    \A i \in 1..Len(reads) :
        /\ reads[i].err = "" =>
              reads[i].values =
                  SelectSeq([k \in 1..Len(ReadFile.lines) |-> TrimSpace(ReadFile.lines[k])],
                            KeptLine)
        /\ \A j \in 1..Len(reads) : reads[j] = reads[i]
        /\ (~RejectedPath(rpath, cwd) /\ Abs(Clean(rpath), cwd).err = ""
                /\ ReadFile.kind = "file"
                /\ \A k \in 1..Len(ReadFile.lines) : ~KeptLine(TrimSpace(ReadFile.lines[k])))
              => (reads[i].err = "" /\ reads[i].values = <<>>)

\* C11 witness: a comments-only file with an indented comment was read twice
\* without error and gave no targets.
Wit_C11 ==
    /\ Len(reads) = 2
    /\ reads[1].err = "" /\ reads[2].err = ""
    /\ reads[2].values = <<>>
    /\ \E k \in 1..Len(ReadFile.lines) : HasPrefix(ReadFile.lines[k], <<" ", "#">>)

----------------------------------------------------------------------------
(* internal/detector: registry and runner *)

S_fake == <<"f", "a", "k", "e">>
S_boom == <<"b", "o", "o", "m">>
S_bogus == <<"b", "o", "g", "u", "s">>

\* detector.Result; Summary is the list of the parts it is formatted from
Result(target, detector, severity, summary) ==
    [Target |-> target, Detector |-> detector, Severity |-> severity, Summary |-> summary]

\* A detector instance: Name() and what Detect does.  "net": the outcome
\* depends on the network and on the context; "ok" / "err": a test double
\* that returns its fixed result / its fixed error.
VersionDetector == [name |-> S_version, behaviour |-> "net"]

DefaultRegistry == [n \in {S_version} |-> VersionDetector]

TestRegistry ==
    [n \in {S_version, S_fake, S_boom} |->
        CASE n = S_version -> VersionDetector
          [] n = S_fake -> [name |-> S_fake, behaviour |-> "ok"]
          [] OTHER -> [name |-> S_boom, behaviour |-> "err"]]

\* the loop appends an instance for every occurrence of a name
RECURSIVE BuildLoop_NoDedup(_, _, _, _, _)
BuildLoop_NoDedup(r, ns, seen, detectors, constructed) ==
    IF ns = <<>> THEN [dets |-> detectors, err |-> "", constructed |-> constructed]
    ELSE LET name == Head(ns)
         IN  IF name \notin DOMAIN r
             THEN [dets |-> <<>>, err |-> "unknown detector", constructed |-> constructed]
             ELSE BuildLoop_NoDedup(r, Tail(ns), seen \cup {name},
                                    Append(detectors, r[name]), Append(constructed, name))

\* the loop of BuildDetectors; constructed lists the factory() calls made
RECURSIVE BuildLoop(_, _, _, _, _)
BuildLoop(r, ns, seen, detectors, constructed) ==
    IF ns = <<>> THEN [dets |-> detectors, err |-> "", constructed |-> constructed]
    ELSE LET name == Head(ns)
         IN  IF name \notin DOMAIN r
             THEN [dets |-> <<>>, err |-> "unknown detector", constructed |-> constructed]
             ELSE IF name \in seen
             THEN BuildLoop(r, Tail(ns), seen, detectors, constructed)
             ELSE BuildLoop(r, Tail(ns), seen \cup {name},
                            Append(detectors, r[name]), Append(constructed, name))

BuildDetectors(r, ns) ==
    IF Len(ns) = 0 THEN [dets |-> <<>>, err |-> "", constructed |-> <<>>]
    ELSE BuildLoop(r, ns, {}, <<>>, <<>>)

\* the errors a Detect call of detector d can return ("" for nil) when it
\* returns with the context cancelled or not
DetectOutcomes(d, done) ==
    CASE d.behaviour = "ok" -> {""}
      [] d.behaviour = "err" -> {"boom"}
      [] OTHER -> {"", "unexpected status"}
                      \cup (IF done THEN {"context canceled"} ELSE {})

\* the result a successful Detect call returns; the test double returns its
\* fixed result field, which the test registry leaves at the zero Result
DetectResult(d, target) ==
    IF d.behaviour = "net"
    THEN Result(target, S_version, "info", <<"WordPress version ", "detected">>)
    ELSE Result(<<>>, <<>>, "", <<>>)

\* the result Run makes of a Detect error
ErrorResult(d, target, e) == Result(target, d.name, "info", <<"detector error: ", e>>)

MaxNames == 3
MaxTargets == 2

DetNames == {S_version, S_fake, S_boom, S_bogus}
NameLists == UNION {[1..n -> DetNames] : n \in 0..MaxNames}
Target(i) == [k \in 1..i |-> "a"]
TargetLists == {[i \in 1..n |-> Target(i)] : n \in 0..MaxTargets}

InitDet ==
    /\ cwd = <<"/", "w">>
    /\ opened = <<>>
    /\ rpath = <<>>
    /\ reads = <<>>
    /\ cfgFile = [kind |-> "missing", raw |-> FileRawNone]
    /\ env = EnvNone
    /\ flags = FlagsNone
    /\ cfg = DefaultRuntimeConfig
    /\ pc = "idle"
    /\ err = ""
    /\ verr = ""
    /\ applied = <<>>
    /\ names \in NameLists
    /\ dets = <<>>
    /\ built = <<>>
    /\ berr = ""
    /\ rtargets \in TargetLists
    /\ rpc = "build"
    /\ ti = 0
    /\ di = 0
    /\ results = <<>>
    /\ rerr = ""
    /\ detects = <<>>
    /\ ctxDone = FALSE
    /\ atCancel = [cancelled |-> FALSE, results |-> <<>>, inflight |-> FALSE]
    /\ ScanIdle
    /\ wres = NilSlice
    /\ EmitIdle

\* registry.BuildDetectors(names)
DetBuild ==
    /\ rpc = "build"
    /\ LET b == BuildDetectors(TestRegistry, names)
       IN  /\ dets' = b.dets
           /\ built' = b.constructed
           /\ berr' = b.err
           /\ rpc' = IF b.err # "" THEN "builderr" ELSE "run"
    /\ UNCHANGED <<cwd, opened, readVars, loadVars, cfg, pc, verr, scanVars, wres, emitVars>>
    /\ UNCHANGED <<names, rtargets, ti, di, results, rerr, detects, ctxDone, atCancel>>

\* Run up to the first iteration
RunEnter ==
    /\ rpc = "run"
    /\ IF Len(dets) = 0 \/ Len(rtargets) = 0
       THEN rpc' = "done" /\ UNCHANGED <<ti, di>>
       ELSE rpc' = "select" /\ ti' = 1 /\ di' = 1
    /\ UNCHANGED <<cwd, opened, readVars, loadVars, cfg, pc, verr, scanVars, wres, emitVars>>
    /\ UNCHANGED <<names, dets, built, berr, rtargets, results, rerr, detects, ctxDone,
                   atCancel>>

\* the select at the head of the inner loop, and the start of the Detect call
RunSelect ==
    /\ rpc = "select"
    /\ IF ctxDone
       THEN /\ rpc' = "done"
            /\ rerr' = "context canceled"
            /\ UNCHANGED detects
       ELSE /\ rpc' = "detect"
            /\ detects' = Append(detects, <<rtargets[ti], dets[di].name>>)
            /\ UNCHANGED rerr
    /\ UNCHANGED <<cwd, opened, readVars, loadVars, cfg, pc, verr, scanVars, wres, emitVars>>
    /\ UNCHANGED <<names, dets, built, berr, rtargets, ti, di, results, ctxDone, atCancel>>

\* where the loops stand after the body for (ti, di)
RunAdvance ==
    /\ IF di < Len(dets)
       THEN di' = di + 1 /\ UNCHANGED ti
       ELSE di' = 1 /\ ti' = ti + 1
    /\ rpc' = IF di = Len(dets) /\ ti = Len(rtargets) THEN "done" ELSE "select"

\* a Detect error ends the run
RunDetect_AbortOnError ==
    /\ rpc = "detect"
    /\ \E e \in DetectOutcomes(dets[di], ctxDone) :
          IF e # ""
          THEN /\ rerr' = e
               /\ rpc' = "done"
               /\ UNCHANGED <<results, ti, di>>
          ELSE /\ results' = Append(results, DetectResult(dets[di], rtargets[ti]))
               /\ RunAdvance
               /\ UNCHANGED rerr
    /\ UNCHANGED <<cwd, opened, readVars, loadVars, cfg, pc, verr, scanVars, wres, emitVars>>
    /\ UNCHANGED <<names, dets, built, berr, rtargets, detects, ctxDone, atCancel>>

\* the Detect call returns and its outcome is appended
RunDetect ==
    /\ rpc = "detect"
    /\ \E e \in DetectOutcomes(dets[di], ctxDone) :
          results' = Append(results,
                            IF e # "" THEN ErrorResult(dets[di], rtargets[ti], e)
                            ELSE DetectResult(dets[di], rtargets[ti]))
    /\ RunAdvance
    /\ UNCHANGED <<cwd, opened, readVars, loadVars, cfg, pc, verr, scanVars, wres, emitVars>>
    /\ UNCHANGED <<names, dets, built, berr, rtargets, rerr, detects, ctxDone, atCancel>>

\* the caller cancels the context while Run is in its loops
Cancel ==
    /\ rpc \in {"select", "detect"}
    /\ ~ctxDone
    /\ ctxDone' = TRUE
    /\ atCancel' = [cancelled |-> TRUE, results |-> results, inflight |-> rpc = "detect"]
    /\ UNCHANGED <<cwd, opened, readVars, loadVars, cfg, pc, verr, scanVars, wres, emitVars>>
    /\ UNCHANGED <<names, dets, built, berr, rtargets, rpc, ti, di, results, rerr, detects>>

NextDet == DetBuild \/ RunEnter \/ RunSelect \/ RunDetect \/ Cancel

SpecDet == InitDet /\ [][NextDet]_vars

----------------------------------------------------------------------------
(* internal/cli/scan.go: the scan command *)

S_JSON == <<"J", "S", "O", "N">>
S_xml == <<"x", "m", "l">>
S_detections == <<"d", "e", "t", "e", "c", "t", "i", "o", "n", "s">>
S_summary == <<"s", "u", "m">>

\* strings.ToLower
LowerString(str) == [i \in 1..Len(str) |-> ToLower(str[i])]

\* filepath.Dir of a cleaned path: everything before the last separator
RECURSIVE Dir(_)
Dir(path) ==
    IF path = <<>> THEN <<".">>
    ELSE IF path[Len(path)] = "/"
         THEN (IF Len(path) = 1 THEN path ELSE SubSeq(path, 1, Len(path) - 1))
    ELSE Dir(SubSeq(path, 1, Len(path) - 1))

\* filepath.Join(cfg.OutputDir, fmt.Sprintf("scan_%s.%s", timestamp, format));
\* "T" stands for the timestamp, taken once per scan
ScanPath(dir, format) ==
    Clean(dir \o <<"/">> \o <<"s", "c", "a", "n", "_", "T", ".">> \o format)

\* filepath.Join(cfg.OutputDir, fmt.Sprintf("detections_%s.json", timestamp))
DetectionsPath(dir) ==
    Clean(dir \o <<"/">> \o S_detections \o <<"_", "T", ".">> \o S_json)

\* events.Event as the scan command fills it
Event(type, message, fields) == [type |-> type, message |-> message, fields |-> fields]

\* one entry of the log of operations on the outside world
Call(op, arg, ok) == [op |-> op, arg |-> arg, ok |-> ok]

\* the merged configurations a scan can start from
ScanFormatLists ==
    {<<S_json>>, <<S_json, S_csv>>, <<S_JSON, S_json>>, <<S_xml>>, <<S_csv, S_xml>>}
ScanDetectorLists ==
    {<<>>, <<S_version>>, <<S_version, S_version>>, <<S_bogus>>, <<S_version, S_bogus>>}
ScanConfigs ==
    {[DefaultRuntimeConfig EXCEPT !.Targets = t, !.Formats = f, !.Detectors = d,
                                  !.DryRun = dr, !.SummaryFile = sf] :
        t \in TargetLists, f \in ScanFormatLists, d \in ScanDetectorLists,
        dr \in BOOLEAN, sf \in {<<>>, S_summary}}

InitScan ==
    /\ cwd = <<"/", "w">>
    /\ opened = <<>>
    /\ rpath = <<>>
    /\ reads = <<>>
    /\ cfgFile = [kind |-> "missing", raw |-> FileRawNone]
    /\ env = EnvNone
    /\ flags = FlagsNone
    /\ cfg \in ScanConfigs
    /\ pc = "loaded"
    /\ err = ""
    /\ verr = ""
    /\ applied = <<>>
    /\ DetIdle
    /\ ScanIdle
    /\ wres = NilSlice
    /\ EmitIdle

\* the state of the scan command as a record, and its assignment; on return
\* the deferred os.Remove(targetsFile) runs if it has been registered
cur ==
    [pc |-> pc, serr |-> serr, events |-> events, tmp |-> tmp, outputs |-> outputs,
     files |-> files, calls |-> calls, fi |-> fi, ei |-> ei]

ScanSet(n) ==
    /\ pc' = n.pc
    /\ serr' = n.serr
    /\ events' = n.events
    /\ tmp' = IF n.pc = "returned" /\ n.tmp.deferred
              THEN [n.tmp EXCEPT !.present = FALSE] ELSE n.tmp
    /\ outputs' = n.outputs
    /\ files' = n.files
    /\ calls' = n.calls
    /\ fi' = n.fi
    /\ ei' = n.ei

\* return e from RunE
Return(n, e) == [n EXCEPT !.pc = "returned", !.serr = e]

\* ensureOutputDir(path); mk: os.MkdirAll succeeds
ensureOutputDir(n, path, mk) ==
    IF path = <<>> THEN [n |-> n, err |-> "output directory cannot be empty"]
    ELSE [n |-> [n EXCEPT !.calls = Append(@, Call("MkdirAll", path, mk))],
          err |-> IF mk THEN "" ELSE "mkdir failed"]

\* emitter.Emit(evt); wr: the write to the sink succeeds
Emit(n, evt, wr) ==
    IF wr
    THEN [n |-> [n EXCEPT !.calls = Append(@, Call("Emit", evt.type, TRUE)),
                          !.events = Append(@, evt)],
          err |-> ""]
    ELSE [n |-> [n EXCEPT !.calls = Append(@, Call("Emit", evt.type, FALSE))],
          err |-> "write failed"]

\* os.WriteFile(path, ...); wr: it succeeds
WriteFile(n, file, wr) ==
    [n |-> [n EXCEPT !.calls = Append(@, Call("WriteFile", file.path, wr)),
                     !.files = IF wr THEN Append(@, file) ELSE @],
     err |-> IF wr THEN "" ELSE "write failed"]

\* writePlaceholderArtifact(path, format, targets)
writePlaceholderArtifact(n, path, format, targets, mk, wr) ==
    LET d == ensureOutputDir(n, Dir(path), mk)
    IN  IF d.err # "" THEN d
        ELSE IF format \in {S_json, S_csv}
        THEN WriteFile(d.n, [path |-> path, kind |-> "placeholder", format |-> format,
                             targets |-> targets], wr)
        ELSE [n |-> d.n, err |-> "unsupported format"]

\* the slice value Run returns for its results variable: nil when nothing
\* was appended, and nil in the early return
ReturnedSlice(res) == [isNil |-> res = <<>>, elems |-> res]

\* json.MarshalIndent(results, "", "  ") of a []detector.Result, as bytes; the
\* object of one result stands as one byte
RECURSIVE MarshalElems(_)
MarshalElems(elems) ==
    IF Len(elems) = 1 THEN <<"\n", " ", " ", [object |-> elems[1]], "\n">>
    ELSE <<"\n", " ", " ", [object |-> Head(elems)], ",">> \o MarshalElems(Tail(elems))

MarshalIndent(slice) ==
    IF slice.isNil THEN <<"n", "u", "l", "l">>
    ELSE IF slice.elems = <<>> THEN <<"[", "]">>
    ELSE <<"[">> \o MarshalElems(slice.elems) \o <<"]">>

\* writeDetectionsArtifact(path, results)
writeDetectionsArtifact(n, path, res, mk, wr) ==
    LET d == ensureOutputDir(n, Dir(path), mk)
    IN  IF d.err # "" THEN d
        ELSE WriteFile(d.n, [path |-> path, kind |-> "detections", results |-> res.elems,
                             body |-> MarshalIndent(res) \o <<"\n">>], wr)

\* writeSummary(path, cfg, artifacts, detections)
writeSummary(n, path, c, artifacts, detections, mk, wr) ==
    LET d == ensureOutputDir(n, Dir(path), mk)
    IN  IF d.err # "" THEN d
        ELSE WriteFile(d.n, [path |-> path, kind |-> "summary", targets |-> c.Targets,
                             mode |-> c.Mode, artifacts |-> artifacts,
                             dryRun |-> c.DryRun, detectors |-> c.Detectors,
                             detections |-> detections], wr)

\* runner.Scan(ctx, input); ok: wpprobe exits with status 0 and has written
\* its output file
runnerScan(n, targetsFile, c, path, ok) ==
    [n |-> [n EXCEPT !.calls = Append(@, Call("Scan", path, ok)),
                     !.files = IF ok THEN Append(@, [path |-> path, kind |-> "tool",
                                                      targetsFile |-> targetsFile,
                                                      mode |-> c.Mode,
                                                      threads |-> c.Threads])
                               ELSE @],
     err |-> IF ok THEN "" ELSE "wpprobe failed"]

\* what every step of the scan command leaves alone
ScanFrame == UNCHANGED <<cwd, opened, readVars, loadVars, cfg, verr, wres, emitVars>>

\* ensureOutputDir(cfg.OutputDir)
ScanEnsureOutputDir ==
    /\ pc = "valid"
    /\ \E mk \in BOOLEAN :
          LET d == ensureOutputDir(cur, cfg.OutputDir, mk)
          IN  ScanSet(IF d.err # "" THEN Return(d.n, d.err)
                      ELSE [d.n EXCEPT !.pc = "tempfile"])
    /\ ScanFrame
    /\ UNCHANGED detVars

TmpLeft == [created |-> TRUE, present |-> TRUE, deferred |-> FALSE]
TmpDeferred == [created |-> TRUE, present |-> TRUE, deferred |-> TRUE]

\* writeTargetsTempFile(cfg.Targets) and the defer after it; o names the
\* call that fails, if any
ScanWriteTargetsTempFile ==
    /\ pc = "tempfile"
    /\ \E o \in {"create", "write", "close", "none"} :
          /\ o = "write" => Len(cfg.Targets) > 0
          /\ LET c1 == [cur EXCEPT !.calls = Append(@, Call("CreateTemp", cfg.Targets,
                                                          o = "none"))]
             IN  ScanSet(CASE o = "create" -> Return(c1, "create failed")
                           [] o = "write" -> Return([c1 EXCEPT !.tmp = TmpLeft], "write failed")
                           [] o = "close" -> Return([c1 EXCEPT !.tmp = TmpLeft], "close failed")
                           [] OTHER -> [c1 EXCEPT !.tmp = TmpDeferred, !.pc = "start"])
    /\ ScanFrame
    /\ UNCHANGED detVars

\* emit scan-start
ScanEmitStart ==
    /\ pc = "start"
    /\ \E wr \in BOOLEAN :
          LET e == Emit(cur, Event("scan-start", "Starting scan",
                                   [targets |-> Len(cfg.Targets), mode |-> cfg.Mode,
                                    dryRun |-> cfg.DryRun]), wr)
          IN  ScanSet(IF e.err # "" THEN Return(e.n, e.err)
                      ELSE [e.n EXCEPT !.pc = "binary"])
    /\ ScanFrame
    /\ UNCHANGED detVars

\* the binary is looked up in dry-run mode too
ScanEnsureBinary_Always ==
    /\ pc = "binary"
    /\ \E ok \in BOOLEAN :
          LET c1 == [cur EXCEPT !.calls = Append(@, Call("LookPath", <<>>, ok))]
          IN  ScanSet(IF ~ok THEN Return(c1, "wpprobe not found")
                      ELSE [c1 EXCEPT !.pc = "formats", !.fi = 1])
    /\ ScanFrame
    /\ UNCHANGED detVars

\* runner.EnsureBinary() unless dry-run
ScanEnsureBinary ==
    /\ pc = "binary"
    /\ \E ok \in BOOLEAN :
          LET c1 == [cur EXCEPT !.calls = Append(@, Call("LookPath", <<>>, ok))]
          IN  ScanSet(IF cfg.DryRun THEN [cur EXCEPT !.pc = "formats", !.fi = 1]
                      ELSE IF ~ok THEN Return(c1, "wpprobe not found")
                      ELSE [c1 EXCEPT !.pc = "formats", !.fi = 1])
    /\ ScanFrame
    /\ UNCHANGED detVars

\* the written path is not appended to outputs
FormatBody_NoCount(n, mk, wr, ok, em) ==
    LET format == LowerString(TrimSpace(cfg.Formats[fi]))
        outputPath == ScanPath(cfg.OutputDir, format)
        w == IF cfg.DryRun
             THEN writePlaceholderArtifact(n, outputPath, format, cfg.Targets, mk, wr)
             ELSE runnerScan(n, "targetsFile", cfg, outputPath, ok)
        e == Emit(w.n,
                  Event("artifact-written", "", [path |-> outputPath, format |-> format]),
                  em)
    IN  IF format = <<>> THEN [n |-> n, err |-> "", inWrite |-> FALSE]
        ELSE IF w.err # "" THEN [n |-> w.n, err |-> w.err, inWrite |-> TRUE]
        ELSE [n |-> e.n, err |-> e.err, inWrite |-> FALSE]

\* the body of the format loop for cfg.Formats[fi], with the given outcomes
\* of the operations it makes: the state it reaches, the error it hits and
\* whether that error came from the write or tool run
FormatBody(n, mk, wr, ok, em) ==
    LET format == LowerString(TrimSpace(cfg.Formats[fi]))
        outputPath == ScanPath(cfg.OutputDir, format)
        w == IF cfg.DryRun
             THEN writePlaceholderArtifact(n, outputPath, format, cfg.Targets, mk, wr)
             ELSE runnerScan(n, "targetsFile", cfg, outputPath, ok)
        e == Emit([w.n EXCEPT !.outputs = Append(@, outputPath)],
                  Event("artifact-written", "", [path |-> outputPath, format |-> format]),
                  em)
    IN  IF format = <<>> THEN [n |-> n, err |-> "", inWrite |-> FALSE]
        ELSE IF w.err # "" THEN [n |-> w.n, err |-> w.err, inWrite |-> TRUE]
        ELSE [n |-> e.n, err |-> e.err, inWrite |-> FALSE]

\* a failed write or tool run only skips the format
ScanFormat_ContinueOnError ==
    /\ pc = "formats"
    /\ fi <= Len(cfg.Formats)
    /\ \E mk, wr, ok, em \in BOOLEAN :
          LET b == FormatBody(cur, mk, wr, ok, em)
          IN  ScanSet(IF b.err # "" /\ ~b.inWrite THEN Return(b.n, b.err)
                      ELSE [b.n EXCEPT !.fi = fi + 1])
    /\ ScanFrame
    /\ UNCHANGED detVars

\* one iteration of the format loop
ScanFormat ==
    /\ pc = "formats"
    /\ fi <= Len(cfg.Formats)
    /\ \E mk, wr, ok, em \in BOOLEAN :
          LET b == FormatBody(cur, mk, wr, ok, em)
          IN  ScanSet(IF b.err # "" THEN Return(b.n, b.err)
                      ELSE [b.n EXCEPT !.fi = fi + 1])
    /\ ScanFrame
    /\ UNCHANGED detVars

\* after the format loop, with detectors-skipped emitted in every dry run
ScanDetectors_AlwaysSkipped ==
    /\ pc = "formats"
    /\ fi > Len(cfg.Formats)
    /\ \E em \in BOOLEAN :
          LET b == BuildDetectors(DefaultRegistry, cfg.Detectors)
              c1 == [cur EXCEPT !.calls = Append(@, Call("BuildDetectors", cfg.Detectors,
                                                          b.err = ""))]
              e == Emit(cur, Event("detectors-skipped",
                                   "Detectors require live targets; skipped due to --dry-run",
                                   <<>>), em)
          IN  IF ~cfg.DryRun
              THEN /\ names' = cfg.Detectors
                   /\ dets' = b.dets
                   /\ built' = b.constructed
                   /\ berr' = b.err
                   /\ rtargets' = IF b.err = "" /\ Len(b.dets) > 0 THEN cfg.Targets
                                  ELSE rtargets
                   /\ rpc' = IF b.err = "" /\ Len(b.dets) > 0 THEN "run" ELSE rpc
                   /\ ScanSet(IF b.err # "" THEN Return(c1, b.err)
                              ELSE IF Len(b.dets) > 0 THEN [c1 EXCEPT !.pc = "run"]
                              ELSE [c1 EXCEPT !.pc = "summary"])
              ELSE /\ UNCHANGED <<names, dets, built, berr, rtargets, rpc>>
                   /\ ScanSet(IF e.err # "" THEN Return(e.n, e.err)
                              ELSE [e.n EXCEPT !.pc = "summary"])
    /\ ScanFrame
    /\ UNCHANGED <<ti, di, results, rerr, detects, ctxDone, atCancel>>

\* after the format loop: build the detectors and enter Run, or emit
\* detectors-skipped in a dry run that has detectors configured
ScanDetectors ==
    /\ pc = "formats"
    /\ fi > Len(cfg.Formats)
    /\ \E em \in BOOLEAN :
          LET b == BuildDetectors(DefaultRegistry, cfg.Detectors)
              c1 == [cur EXCEPT !.calls = Append(@, Call("BuildDetectors", cfg.Detectors,
                                                          b.err = ""))]
              e == Emit(cur, Event("detectors-skipped",
                                   "Detectors require live targets; skipped due to --dry-run",
                                   <<>>), em)
          IN  IF ~cfg.DryRun
              THEN /\ names' = cfg.Detectors
                   /\ dets' = b.dets
                   /\ built' = b.constructed
                   /\ berr' = b.err
                   /\ rtargets' = IF b.err = "" /\ Len(b.dets) > 0 THEN cfg.Targets
                                  ELSE rtargets
                   /\ rpc' = IF b.err = "" /\ Len(b.dets) > 0 THEN "run" ELSE rpc
                   /\ ScanSet(IF b.err # "" THEN Return(c1, b.err)
                              ELSE IF Len(b.dets) > 0 THEN [c1 EXCEPT !.pc = "run"]
                              ELSE [c1 EXCEPT !.pc = "summary"])
              ELSE /\ UNCHANGED <<names, dets, built, berr, rtargets, rpc>>
                   /\ ScanSet(IF Len(cfg.Detectors) = 0 THEN [cur EXCEPT !.pc = "summary"]
                              ELSE IF e.err # "" THEN Return(e.n, e.err)
                              ELSE [e.n EXCEPT !.pc = "summary"])
    /\ ScanFrame
    /\ UNCHANGED <<ti, di, results, rerr, detects, ctxDone, atCancel>>

\* Run has returned: write the detections file and emit its event
ScanAfterRun ==
    /\ pc = "run"
    /\ rpc = "done"
    /\ \E mk, wr, em \in BOOLEAN :
          LET c1 == [cur EXCEPT !.calls = Append(@, Call("Run", <<>>, rerr = ""))]
              detectionsPath == DetectionsPath(cfg.OutputDir)
              w == writeDetectionsArtifact(c1, detectionsPath, ReturnedSlice(results), mk, wr)
              e == Emit([w.n EXCEPT !.outputs = Append(@, detectionsPath)],
                        Event("artifact-written", "",
                              [path |-> detectionsPath, format |-> S_detections]), em)
          IN  ScanSet(IF rerr # "" THEN Return(c1, rerr)
                      ELSE IF w.err # "" THEN Return(w.n, w.err)
                      ELSE IF e.err # "" THEN Return(e.n, e.err)
                      ELSE [e.n EXCEPT !.ei = 1,
                                       !.pc = IF Len(results) = 0 THEN "summary"
                                              ELSE "detections"])
    /\ ScanFrame
    /\ UNCHANGED detVars

\* one iteration of the loop that emits the detection events
ScanEmitDetection ==
    /\ pc = "detections"
    /\ ei <= Len(results)
    /\ \E em \in BOOLEAN :
          LET res == results[ei]
              e == Emit(cur, Event("detection", res.Summary,
                                   [target |-> res.Target, detector |-> res.Detector,
                                    severity |-> res.Severity]), em)
          IN  ScanSet(IF e.err # "" THEN Return(e.n, e.err)
                      ELSE [e.n EXCEPT !.ei = ei + 1,
                                       !.pc = IF ei = Len(results) THEN "summary"
                                              ELSE "detections"])
    /\ ScanFrame
    /\ UNCHANGED detVars

\* writeSummary if a summary file is configured
ScanSummary ==
    /\ pc = "summary"
    /\ \E mk, wr \in BOOLEAN :
          LET w == writeSummary(cur, cfg.SummaryFile, cfg, outputs, results, mk, wr)
          IN  ScanSet(IF cfg.SummaryFile = <<>> THEN [cur EXCEPT !.pc = "finish"]
                      ELSE IF w.err # "" THEN Return(w.n, w.err)
                      ELSE [w.n EXCEPT !.pc = "finish"])
    /\ ScanFrame
    /\ UNCHANGED detVars

\* the command returns without the final event
ScanFinish_Silent ==
    /\ pc = "finish"
    /\ ScanSet(Return(cur, ""))
    /\ ScanFrame
    /\ UNCHANGED detVars

\* return emitter.Emit(scan-finished)
ScanFinish ==
    /\ pc = "finish"
    /\ \E em \in BOOLEAN :
          LET e == Emit(cur, Event("scan-finished", "Scan complete",
                                   [artifacts |-> Len(outputs)]), em)
          IN  ScanSet(Return(e.n, e.err))
    /\ ScanFrame
    /\ UNCHANGED detVars

NextScan ==
    \/ RunValidate
    \/ ScanEnsureOutputDir
    \/ ScanWriteTargetsTempFile
    \/ ScanEmitStart
    \/ ScanEnsureBinary
    \/ ScanFormat
    \/ ScanDetectors
    \/ RunEnter
    \/ RunSelect
    \/ RunDetect
    \/ Cancel
    \/ ScanAfterRun
    \/ ScanEmitDetection
    \/ ScanSummary
    \/ ScanFinish

SpecScan == InitScan /\ [][NextScan]_vars

----------------------------------------------------------------------------
(* writeDetectionsArtifact on its own *)

MaxResults == 3

ResultSamples ==
    {Result(Target(1), S_version, "info", <<"WordPress version ", "detected">>),
     ErrorResult(VersionDetector, Target(1), "unexpected status"),
     Result(<<>>, <<>>, "", <<>>)}

SliceInputs ==
    {NilSlice} \cup
    {[isNil |-> FALSE, elems |-> e] : e \in UNION {[1..n -> ResultSamples] : n \in 0..MaxResults}}

InitWrite ==
    /\ cwd = <<"/", "w">>
    /\ opened = <<>>
    /\ rpath = <<>>
    /\ reads = <<>>
    /\ cfgFile = [kind |-> "missing", raw |-> FileRawNone]
    /\ env = EnvNone
    /\ flags = FlagsNone
    /\ cfg = DefaultRuntimeConfig
    /\ pc = "write"
    /\ err = ""
    /\ verr = ""
    /\ applied = <<>>
    /\ DetIdle
    /\ ScanIdle
    /\ wres \in SliceInputs
    /\ EmitIdle

\* writeDetectionsArtifact(path, wres) called by itself
WriteDetections ==
    /\ pc = "write"
    /\ \E mk, wr \in BOOLEAN :
          LET w == writeDetectionsArtifact(cur, DetectionsPath(cfg.OutputDir), wres, mk, wr)
          IN  ScanSet([w.n EXCEPT !.pc = "written", !.serr = w.err])
    /\ ScanFrame
    /\ UNCHANGED detVars

NextWrite == WriteDetections

SpecWrite == InitWrite /\ [][NextWrite]_vars

----------------------------------------------------------------------------
(* internal/events: the emitter under concurrent callers *)

MaxGoroutines == 2

Goroutines == 1..MaxGoroutines

\* an event handed to Emit: its Timestamp field (0: the zero time) and
\* whether a value in its Fields fails to marshal
EventInputs ==
    {[stamp |-> 0, bad |-> FALSE], [stamp |-> 1, bad |-> FALSE], [stamp |-> 0, bad |-> TRUE]}

\* one byte of a serialized event; ev and ts say whose record it belongs to
Byte(g, k, ts, ch) == [ev |-> <<g, k>>, ts |-> ts, ch |-> ch]

\* append(payload, '\n'), with payload the single-line JSON of the event
Record(g, k, ts) == <<Byte(g, k, ts, "{"), Byte(g, k, ts, "}"), Byte(g, k, ts, "\n")>>

InitEmit ==
    /\ cwd = <<"/", "w">>
    /\ opened = <<>>
    /\ rpath = <<>>
    /\ reads = <<>>
    /\ cfgFile = [kind |-> "missing", raw |-> FileRawNone]
    /\ env = EnvNone
    /\ flags = FlagsNone
    /\ cfg = DefaultRuntimeConfig
    /\ pc = "idle"
    /\ err = ""
    /\ verr = ""
    /\ applied = <<>>
    /\ DetIdle
    /\ ScanIdle
    /\ wres = NilSlice
    /\ evts \in [Goroutines -> [1..1 -> EventInputs]]
    /\ gor = [g \in Goroutines |-> [pc |-> "prepare", k |-> 1, ts |-> 0, n |-> 0]]
    /\ clock = 2
    /\ mu = 0
    /\ sink = <<>>
    /\ emits = <<>>

EmitFrame ==
    UNCHANGED <<cwd, opened, readVars, loadVars, cfg, pc, verr, detVars, scanVars, wres, evts>>

\* goroutine g after its Emit call has returned: it goes on to its next
\* event, if it has one (here every goroutine makes one call)
Returned(g) ==
    [gor[g] EXCEPT !.k = @ + 1,
                   !.pc = IF gor[g].k = Len(evts[g]) THEN "done" ELSE "prepare"]

\* Emit up to the lock: the timestamp is set if it is zero and the event is
\* marshalled; a marshal error returns
EmitPrepare(g) ==
    /\ gor[g].pc = "prepare"
    /\ LET evt == evts[g][gor[g].k]
           ts == IF evt.stamp = 0 THEN clock ELSE evt.stamp
       IN  /\ \E d \in {0, 1} : clock' = IF evt.stamp = 0 THEN clock + d ELSE clock
           /\ IF evt.bad
              THEN /\ emits' = Append(emits, [g |-> g, k |-> gor[g].k, ts |-> ts,
                                              err |-> "marshal error"])
                   /\ gor' = [gor EXCEPT ![g] = Returned(g)]
              ELSE /\ gor' = [gor EXCEPT ![g] = [@ EXCEPT !.pc = "lock", !.ts = ts]]
                   /\ UNCHANGED emits
    /\ UNCHANGED <<mu, sink>>
    /\ EmitFrame

\* the goroutine goes on to write without waiting for the mutex
EmitLock_NoMutex(g) ==
    /\ gor[g].pc = "lock"
    /\ mu' = g
    /\ gor' = [gor EXCEPT ![g] = [@ EXCEPT !.pc = "write", !.n = 0]]
    /\ UNCHANGED <<clock, sink, emits>>
    /\ EmitFrame

\* e.mu.Lock()
EmitLock(g) ==
    /\ gor[g].pc = "lock"
    /\ mu = 0
    /\ mu' = g
    /\ gor' = [gor EXCEPT ![g] = [@ EXCEPT !.pc = "write", !.n = 0]]
    /\ UNCHANGED <<clock, sink, emits>>
    /\ EmitFrame

\* e.writer.Write(append(payload, '\n')), one byte of it: the writer takes
\* the byte, or fails with the bytes taken so far; after the last byte or
\* the failure Emit unlocks and returns
EmitWrite(g) ==
    /\ gor[g].pc = "write"
    /\ LET rec == Record(g, gor[g].k, gor[g].ts)
       IN  \E ok \in BOOLEAN :
              /\ sink' = IF ok THEN Append(sink, rec[gor[g].n + 1]) ELSE sink
              /\ IF ok /\ gor[g].n + 1 < Len(rec)
                 THEN /\ gor' = [gor EXCEPT ![g] = [@ EXCEPT !.n = @ + 1]]
                      /\ UNCHANGED <<mu, emits>>
                 ELSE /\ emits' = Append(emits, [g |-> g, k |-> gor[g].k, ts |-> gor[g].ts,
                                                 err |-> IF ok THEN "" ELSE "write failed"])
                      /\ mu' = 0
                      /\ gor' = [gor EXCEPT ![g] = Returned(g)]
    /\ UNCHANGED clock
    /\ EmitFrame

NextEmit == \E g \in Goroutines : EmitPrepare(g) \/ EmitLock(g) \/ EmitWrite(g)

SpecEmit == InitEmit /\ [][NextEmit]_vars

----------------------------------------------------------------------------
(* properties of BuildDetectors and Run *)

\* C12 as stated: when a name is not registered, BuildDetectors returns an
\* error and no detectors, and no factory has been called for any name.
Orig_C12 ==
    rpc = "builderr" => (berr # "" /\ dets = <<>> /\ built = <<>>)

FirstIndex(ns, n) == CHOOSE i \in 1..Len(ns) : ns[i] = n /\ \A j \in 1..(i - 1) : ns[j] # n

BuildSucceeded == rpc \in {"run", "select", "detect", "done"}

\* C13: for registered names BuildDetectors returns one instance per distinct
\* name, in the order of the names' first occurrences, and calls each
\* factory once.
Thm_C13 ==
    BuildSucceeded =>
        /\ berr = ""
        /\ {dets[k].name : k \in 1..Len(dets)} = {names[i] : i \in 1..Len(names)}
        /\ Len(dets) = Cardinality({names[i] : i \in 1..Len(names)})
        /\ \A a, b \in 1..Len(dets) :
              a < b => FirstIndex(names, dets[a].name) < FirstIndex(names, dets[b].name)
        /\ built = [k \in 1..Len(dets) |-> dets[k].name]

\* C13 witness: a list that repeats a name between two others was built
Wit_C13 ==
    /\ BuildSucceeded
    /\ Len(names) = 3 /\ names[1] = names[3] /\ names[1] # names[2]
    /\ Len(dets) = 2

IsSynthetic(r) ==
    r.Severity = "info" /\ Len(r.Summary) = 2 /\ r.Summary[1] = "detector error: "

\* C14: a Run that was not cancelled returns nil and one result per
\* (target, detector) pair; for a detector that always fails, exactly one
\* result per target is a synthetic error result naming it.
Thm_C14 ==
    (rpc = "done" /\ ~ctxDone) =>
        /\ rerr = ""
        /\ Len(results) = Len(rtargets) * Len(dets)
        /\ \A j \in 1..Len(dets) :
              dets[j].behaviour = "err" =>
                 /\ Cardinality({k \in 1..Len(results) :
                                    IsSynthetic(results[k])
                                        /\ results[k].Detector = dets[j].name})
                       = Len(rtargets)
                 /\ \A i \in 1..Len(rtargets) :
                       \E k \in 1..Len(results) :
                          /\ IsSynthetic(results[k])
                          /\ results[k].Detector = dets[j].name
                          /\ results[k].Target = rtargets[i]
                          /\ results[k].Summary[2] = "boom"

\* C14 witness: two targets, a failing detector between two working ones
Wit_C14 ==
    /\ rpc = "done" /\ ~ctxDone
    /\ Len(rtargets) = 2 /\ Len(dets) = 3
    /\ dets[2].behaviour = "err"
    /\ Len(results) = 6

\* C15 as stated: a Run cancelled in its loops returns the cancellation
\* error and exactly the results it had when the context was cancelled.
Orig_C15 ==
    (rpc = "done" /\ atCancel.cancelled) =>
        (rerr = "context canceled" /\ results = atCancel.results)

----------------------------------------------------------------------------
(* properties of the scan command *)

ScanReturned == pc \in {"returned", "invalid"}
ScanSucceeded == pc = "returned" /\ serr = ""

EventsOf(type) == {i \in 1..Len(events) : events[i].type = type}
CallsOf(op) == {k \in 1..Len(calls) : calls[k].op = op}

\* C16 as stated: once the scan command has returned, the temporary targets
\* file it created is gone, however the command ended.
Orig_C16 == ScanReturned => ~tmp.present

\* C17: a dry-run scan never looks the tool up, never runs it, constructs no
\* detector and makes no Detect call, and every artifact it writes is a
\* placeholder that carries all configured targets.
Thm_C17 ==
    cfg.DryRun =>
        /\ CallsOf("LookPath") = {}
        /\ CallsOf("Scan") = {}
        /\ CallsOf("BuildDetectors") = {}
        /\ CallsOf("Run") = {}
        /\ built = <<>>
        /\ detects = <<>>
        /\ \A i \in 1..Len(files) :
              files[i].kind # "summary" =>
                 (files[i].kind = "placeholder" /\ files[i].targets = cfg.Targets)
        /\ \A i \in 1..Len(outputs) :
              \E j \in 1..Len(files) :
                 files[j].kind = "placeholder" /\ files[j].path = outputs[i]

\* C17 witness: a dry run over two targets with detectors configured has
\* finished and has written its json and csv placeholders
Wit_C17 ==
    /\ ScanSucceeded
    /\ cfg.DryRun
    /\ Len(cfg.Targets) = 2
    /\ Len(cfg.Detectors) > 0
    /\ Len(outputs) = 2
    /\ \E i, j \in 1..Len(files) :
          /\ files[i].kind = "placeholder" /\ files[i].format = S_json
          /\ files[j].kind = "placeholder" /\ files[j].format = S_csv

\* C18: detectors-skipped is never emitted twice, is emitted only in a dry
\* run with a non-empty detectors list, is emitted in every such scan that
\* gets past its format loop, and stands after every artifact-written event
\* and before scan-finished.
Thm_C18 ==
    /\ Cardinality(EventsOf("detectors-skipped")) <= 1
    /\ EventsOf("detectors-skipped") # {} => (cfg.DryRun /\ Len(cfg.Detectors) > 0)
    /\ (pc \in {"summary", "finish"} \/ ScanSucceeded) =>
          ((cfg.DryRun /\ Len(cfg.Detectors) > 0)
              => Cardinality(EventsOf("detectors-skipped")) = 1)
    /\ \A i \in EventsOf("detectors-skipped") :
          /\ \A j \in EventsOf("artifact-written") : j < i
          /\ \A j \in EventsOf("scan-finished") : i < j

\* C18 witness: a finished dry run with detectors and both kinds of
\* neighbouring events
Wit_C18 ==
    /\ ScanSucceeded
    /\ EventsOf("detectors-skipped") # {}
    /\ Cardinality(EventsOf("artifact-written")) = 2
    /\ EventsOf("scan-finished") # {}

NonBlank(f) == TrimSpace(f) # <<>>

\* C19: the events of a successful scan are scan-start, one artifact-written
\* per non-blank format in order, then the detections artifact-written and
\* one detection per result in order (live scan with detectors) or one
\* detectors-skipped (dry run with detectors), then scan-finished.
Thm_C19 ==
    ScanSucceeded =>
        LET nb == SelectSeq(cfg.Formats, NonBlank)
            nf == Len(nb)
            live == ~cfg.DryRun /\ Len(cfg.Detectors) > 0
            dry == cfg.DryRun /\ Len(cfg.Detectors) > 0
            mid == IF live THEN 1 + Len(results) ELSE IF dry THEN 1 ELSE 0
        IN  /\ Len(events) = 1 + nf + mid + 1
            /\ events[1].type = "scan-start"
            /\ \A k \in 1..nf :
                  /\ events[1 + k].type = "artifact-written"
                  /\ events[1 + k].fields.format = LowerString(TrimSpace(nb[k]))
            /\ live =>
                  /\ events[2 + nf].type = "artifact-written"
                  /\ events[2 + nf].fields.format = S_detections
                  /\ \A k \in 1..Len(results) :
                        /\ events[2 + nf + k].type = "detection"
                        /\ events[2 + nf + k].message = results[k].Summary
                        /\ events[2 + nf + k].fields.target = results[k].Target
                        /\ events[2 + nf + k].fields.detector = results[k].Detector
            /\ dry => events[2 + nf].type = "detectors-skipped"
            /\ events[Len(events)].type = "scan-finished"

\* C19 witness: a live scan of two targets in two formats has finished with
\* a detection and a detector error among its results
Wit_C19 ==
    /\ ScanSucceeded
    /\ ~cfg.DryRun
    /\ Len(cfg.Formats) = 2
    /\ Len(results) = 2
    /\ IsSynthetic(results[1]) /\ ~IsSynthetic(results[2])
    /\ Len(events) = 7

ScanFailed == verr # "" \/ \E k \in 1..Len(calls) : ~calls[k].ok

\* C20: a failed operation is the last thing the scan does: the command has
\* returned its error, nothing is called, written or emitted afterwards, and
\* a scan that reaches scan-finished had no failed operation, no unknown
\* detector, no cancelled run and, in a dry run, no unsupported format.
Thm_C20 ==
    /\ [](ScanFailed =>
            /\ ScanReturned
            /\ (serr # "" \/ verr # "")
            /\ \A k \in 1..Len(calls) : ~calls[k].ok => k = Len(calls)
            /\ EventsOf("scan-finished") = {})
    /\ [](pc = "invalid" => (calls = <<>> /\ events = <<>> /\ files = <<>>))
    /\ [](EventsOf("scan-finished") # {} =>
            /\ berr = "" /\ rerr = ""
            /\ cfg.DryRun =>
                  \A i \in 1..Len(cfg.Formats) :
                     ~NonBlank(cfg.Formats[i])
                        \/ LowerString(TrimSpace(cfg.Formats[i])) \in {S_json, S_csv})
    /\ [][ScanFailed => UNCHANGED <<calls, events, files, outputs, detects, built>>]_vars

\* C20 witness: the tool failed on the second format of a live scan that has
\* detectors and a summary file configured
Wit_C20 ==
    /\ pc = "returned"
    /\ serr = "wpprobe failed"
    /\ Len(cfg.Formats) = 2
    /\ Cardinality(EventsOf("artifact-written")) = 1
    /\ Len(cfg.Detectors) > 0
    /\ cfg.SummaryFile # <<>>
    /\ calls[Len(calls)].op = "Scan"

----------------------------------------------------------------------------
(* properties of the detections file *)

IsJSONArray(data) == Len(data) >= 2 /\ data[1] = "[" /\ data[Len(data)] = "]"

\* C21 as stated: a successful writeDetectionsArtifact leaves a file whose
\* content is a JSON array followed by exactly one newline, and for an empty
\* result sequence that content is the bytes [ ] and the newline.
Orig_C21 ==
    (pc = "written" /\ serr = "") =>
        /\ Len(files) = 1
        /\ LET body == files[1].body
           IN  /\ Len(body) >= 1
               /\ body[Len(body)] = "\n"
               /\ IsJSONArray(SubSeq(body, 1, Len(body) - 1))
               /\ wres.elems = <<>> => body = <<"[", "]", "\n">>

----------------------------------------------------------------------------
(* properties of the emitter *)

Succeeded == {i \in 1..Len(emits) : emits[i].err = ""}
Newlines == {i \in 1..Len(sink) : sink[i].ch = "\n"}
BytesOf(g, k) == {i \in 1..Len(sink) : sink[i].ev = <<g, k>>}

\* C22: the bytes of one record are never split by bytes of another, every
\* successful Emit has its whole newline-terminated record in the sink once,
\* and the sink holds as many newlines as Emit calls have succeeded.
Thm_C22 ==
    /\ \A i, j \in 1..Len(sink) :
          (i < j /\ sink[i].ev = sink[j].ev) =>
             \A m \in i..j : sink[m].ev = sink[i].ev
    /\ \A e \in Succeeded :
          /\ Cardinality(BytesOf(emits[e].g, emits[e].k)) = 3
          /\ \E i \in 1..Len(sink) :
                /\ i + 2 <= Len(sink)
                /\ SubSeq(sink, i, i + 2) = Record(emits[e].g, emits[e].k, emits[e].ts)
    /\ Cardinality(Newlines) = Cardinality(Succeeded)

\* C22 witness: two goroutines were past marshalling at the same time and
\* both records are in the sink
Wit_C22 ==
    /\ Cardinality(Succeeded) = 2
    /\ Len(sink) = 6
    /\ sink[1].ev[1] # sink[6].ev[1]
    /\ sink[1].ts > sink[6].ts

\* the line that ends at the newline at position i of the sink
LineStart(i) ==
    IF \E j \in Newlines : j < i
    THEN 1 + CHOOSE j \in Newlines : j < i /\ \A m \in Newlines : m < i => m <= j
    ELSE 1

\* C23 as stated: a failed Emit has returned an error, a marshal failure has
\* put no byte in the sink, no failed Emit has a complete record in the
\* sink, and every line of the sink is the well-formed record of one
\* successful Emit.
Orig_C23 ==
    /\ \A e \in 1..Len(emits) :
          /\ emits[e].err = "marshal error" => BytesOf(emits[e].g, emits[e].k) = {}
          /\ emits[e].err # "" =>
                \A i \in BytesOf(emits[e].g, emits[e].k) : sink[i].ch # "\n"
    /\ \A i \in Newlines :
          SubSeq(sink, LineStart(i), i) = Record(sink[i].ev[1], sink[i].ev[2], sink[i].ts)

\* C24 as stated: among the records of events whose timestamp Emit assigned,
\* the timestamps never decrease along the sink.
Orig_C24 ==
    \A i, j \in Newlines :
        (i < j /\ evts[sink[i].ev[1]][sink[i].ev[2]].stamp = 0
               /\ evts[sink[j].ev[1]][sink[j].ev[2]].stamp = 0)
           => sink[i].ts <= sink[j].ts

----------------------------------------------------------------------------
(* further properties of Run, Load and the scan command *)

\* the Detect calls that had been started when the context was cancelled
StartedAtCancel == Len(atCancel.results) + (IF atCancel.inflight THEN 1 ELSE 0)

\* C25 as stated: once the context is cancelled Run starts no further Detect
\* call, and it returns with the cancellation error.
Orig_C25 ==
    atCancel.cancelled =>
        /\ Len(detects) = StartedAtCancel
        /\ rpc = "done" => rerr = "context canceled"

SummaryFiles == {i \in 1..Len(files) : files[i].kind = "summary"}
DetectionsFiles == {i \in 1..Len(files) : files[i].kind = "detections"}

\* C26: the artifact count of scan-finished is the number of artifact-written
\* events of the scan, which is one per processed format plus one for a
\* detections file, and it is the length of the summary file's artifacts
\* list.
Thm_C26 ==
    /\ \A i \in EventsOf("scan-finished") :
          /\ events[i].fields.artifacts = Cardinality(EventsOf("artifact-written"))
          /\ events[i].fields.artifacts =
                Len(SelectSeq(cfg.Formats, NonBlank))
                    + (IF DetectionsFiles # {} THEN 1 ELSE 0)
          /\ \A j \in EventsOf("artifact-written") : j < i
    /\ \A i \in SummaryFiles :
          Len(files[i].artifacts) = Cardinality(EventsOf("artifact-written"))

\* C26 witness: a live scan with two formats, a detections file and a
\* summary file has finished with the count 3
Wit_C26 ==
    /\ ScanSucceeded
    /\ SummaryFiles # {}
    /\ DetectionsFiles # {}
    /\ events[Len(events)].fields.artifacts = 3

\* C27: when Validate has failed the scan has done nothing: no directory or
\* temporary file created, no event emitted, no tool, factory or Detect call.
Thm_C27 ==
    verr # "" =>
        /\ pc = "invalid"
        /\ calls = <<>>
        /\ ~tmp.created
        /\ events = <<>>
        /\ files = <<>>
        /\ outputs = <<>>
        /\ built = <<>>
        /\ detects = <<>>

\* C27 witness: a configuration without targets, otherwise ready for a live
\* scan with detectors and a summary file, has been rejected
Wit_C27 ==
    /\ pc = "invalid"
    /\ verr = "no targets configured"
    /\ ~cfg.DryRun
    /\ Len(cfg.Detectors) > 0
    /\ cfg.SummaryFile # <<>>

UnknownDetector == \E i \in 1..Len(cfg.Detectors) : cfg.Detectors[i] \notin DOMAIN DefaultRegistry

\* C29 as stated: a live scan whose detectors list has an unregistered name
\* never runs the scan tool and never emits artifact-written.
Orig_C29 ==
    (~cfg.DryRun /\ UnknownDetector) =>
        (CallsOf("Scan") = {} /\ EventsOf("artifact-written") = {})

\* C30 as stated: no path is counted twice or written twice, and the count
\* of scan-finished is the number of distinct artifact files.
Orig_C30 ==
    /\ \A i, j \in 1..Len(outputs) : i # j => outputs[i] # outputs[j]
    /\ \A i, j \in 1..Len(files) : i # j => files[i].path # files[j].path
    /\ \A i \in EventsOf("scan-finished") :
          events[i].fields.artifacts =
              Cardinality({files[j].path : j \in {m \in 1..Len(files) : files[m].kind # "summary"}})

\* the targets file a layer refers to cannot be read or is refused
TargetsFileFails(ov) ==
    ov.TargetsFile # <<>> /\ readTargetsFile(ov.TargetsFile, cwd).err # ""

FileLayerFails ==
    fileExists(cfgFile) /\ loadFromFile(cfgFile).err = "" /\ TargetsFileFails(FileOv)

EnvLayerFails ==
    (fileExists(cfgFile) => loadFromFile(cfgFile).err = "") /\ TargetsFileFails(EnvOv)

WasApplied(layer) == \E i \in 1..Len(applied) : applied[i] = layer

\* C28: when the targets file of the configuration file layer or of the
\* environment layer fails, Load ends with an error at that layer and no
\* later layer is applied, whatever the command line supplies.
Thm_C28 ==
    /\ FileLayerFails =>
          /\ pc \in {"file", "failed"}
          /\ ~WasApplied("env") /\ ~WasApplied("override")
          /\ pc = "failed" => (err # "" /\ applied = <<"file">>)
    /\ (EnvLayerFails /\ ~FileLayerFails) =>
          /\ pc \in {"file", "env", "failed"}
          /\ ~WasApplied("override")
          /\ pc = "failed" => (err # "" /\ applied[Len(applied)] = "env")
    /\ (FileLayerFails \/ EnvLayerFails) =>
          (FlagOv.Targets # <<>> => cfg.Targets # cleanList(FlagOv.Targets))

\* C28 witness: Load has failed on the missing targets file of the
\* environment while the command line gives inline targets and a readable
\* targets file
Wit_C28 ==
    /\ pc = "failed"
    /\ EnvLayerFails
    /\ FlagOv.Targets # <<>>
    /\ FlagOv.TargetsFile # <<>>
    /\ ~TargetsFileFails(FlagOv)

====
